---- MODULE Spec2Model ----
(***************************************************************************)
(* GitMul backend (src-tauri/src/commands): the command handlers over a    *)
(* git repository, and the unified-diff text parser.                       *)
(*                                                                         *)
(* Specifications                                                          *)
(*   SpecDiff     parse_diff, one input line per step (commands/diff.rs)    *)
(*   SpecHandlers the library-call sequences of start_rebase,              *)
(*                get_commit_history and fetch_remote, each call able to   *)
(*                fail                                                     *)
(*   Spec         the repository: work tree, index, commits, branches,     *)
(*                stash, and the handlers that change them                 *)
(***************************************************************************)
EXTENDS Integers, Sequences, FiniteSets, TLC

(***************************************************************************)
(* Text.  A Rust &str is a sequence of one-character strings.              *)
(***************************************************************************)

Digits == <<"0", "1", "2", "3", "4", "5", "6", "7", "8", "9">>

DigitSet == {Digits[i] : i \in 1..10}

DigitVal(c) == (CHOOSE i \in 1..10 : Digits[i] = c) - 1

\* u32::MAX div 10 and u32::MAX mod 10: the checked multiply-add of
\* <u32 as FromStr>::from_str overflows past 4294967295.
U32MaxDiv10 == 429496729

U32MaxMod10 == 5

Whitespace == {" ", "\t"}

RECURSIVE FormatNat(_)
\* Display of an unsigned integer: its decimal digits, no sign, no padding.
FormatNat(n) ==
    IF n < 10 THEN <<Digits[n + 1]>>
    ELSE FormatNat(n \div 10) \o <<Digits[(n % 10) + 1]>>

StartsWith(s, p) ==
    /\ Len(s) >= Len(p)
    /\ SubSeq(s, 1, Len(p)) = p

Drop(s, n) == SubSeq(s, n + 1, Len(s))

RECURSIVE TrimStartMatches(_, _)
\* str::trim_start_matches: removes the prefix p as long as the text starts with it.
TrimStartMatches(s, p) ==
    IF Len(p) > 0 /\ StartsWith(s, p) THEN TrimStartMatches(Drop(s, Len(p)), p)
    ELSE s

RECURSIVE SplitOn(_, _, _)
\* str::split(sep) for a one-character separator; cur is the piece being read.
\* Always yields at least one piece (possibly empty).
SplitOn(s, seps, cur) ==
    IF s = <<>> THEN <<cur>>
    ELSE IF Head(s) \in seps THEN <<cur>> \o SplitOn(Tail(s), seps, <<>>)
    ELSE SplitOn(Tail(s), seps, Append(cur, Head(s)))

\* str::split_whitespace: the non-empty pieces between runs of whitespace.
SplitWhitespace(s) == SelectSeq(SplitOn(s, Whitespace, <<>>), LAMBDA t : t # <<>>)

ParseErr == -1

RECURSIVE ParseDigits(_, _)
\* The digit loop of u32::from_str with checked arithmetic; acc is the value so far.
ParseDigits(s, acc) ==
    IF s = <<>> THEN acc
    ELSE IF Head(s) \notin DigitSet THEN ParseErr
    ELSE IF \/ acc > U32MaxDiv10
            \/ (acc = U32MaxDiv10 /\ DigitVal(Head(s)) > U32MaxMod10) THEN ParseErr
    ELSE ParseDigits(Tail(s), acc * 10 + DigitVal(Head(s)))

\* str::parse::<u32>(): empty text and a lone sign are errors, one leading '+'
\* is accepted, '-' is not.
ParseU32(s) ==
    IF s = <<>> THEN ParseErr
    ELSE IF Head(s) = "+" THEN
        (IF Len(s) = 1 THEN ParseErr ELSE ParseDigits(Tail(s), 0))
    ELSE ParseDigits(s, 0)

UnwrapOr(r, d) == IF r = ParseErr THEN d ELSE r

\* Unicode NFC over the model's alphabet: the only decomposed pair is
\* "e" followed by the combining acute accent, which composes to one character.
CombiningAcute == "\\u0301"

EAcute == "\\u00e9"

RECURSIVE Nfc(_)
Nfc(s) ==
    IF Len(s) < 2 THEN s
    ELSE IF Head(s) = "e" /\ s[2] = CombiningAcute THEN <<EAcute>> \o Nfc(Drop(s, 2))
    ELSE <<Head(s)>> \o Nfc(Tail(s))

normalize_unicode(s) == Nfc(s)


(***************************************************************************)
(* State.                                                                  *)
(***************************************************************************)
VARIABLES
    \* parse_diff (commands/diff.rs): the input lines, the loop position and
    \* the function's locals
    lines, line_ix, file_path, old_path, new_path, is_binary, hunks,
    additions, deletions, current_hunk, old_line_no, new_line_no, parsed,
    \* the handler in progress, its position, and the result of the last one
    h_pc, h_result,
    \* whether user.name and user.email are configured (repo.signature() succeeds)
    sig_configured,
    \* the rebase state on disk (.git/rebase-merge) and start_rebase's conflicts
    rb_active, rb_total, rb_current, conflicts,
    \* get_commit_history: the commits the walk yields, by whether chrono can
    \* represent the commit time; the limit, the loop index, the commits pushed
    walk_times, limit, hist_idx, commits_out,
    \* SYNC_PROGRESS.phase (commands/remote.rs)
    sync_phase,
    \* the repository: working tree, index, commit objects, local branches,
    \* the branch HEAD names, the stash (newest first)
    wt, index, commits, refs, head, stashes,
    \* the paths whose index entry is a conflict (stages 1-3); index[p] of
    \* such a path is the content of its "our" side (stage 2), Absent when the
    \* conflict has none
    conflicted,
    \* the commit of MERGE_HEAD while a merge is in progress, else NoCommit
    merge_head,
    \* the result of the last repository handler
    result,
    \* history: the messages passed to the successful create_commit calls, and
    \* whether create_commit is the only handler that has moved HEAD so far
    created, only_commits,
    \* history: the oids returned by the successful stash_save calls, and
    \* whether a stash entry has been removed so far
    saved, stash_removed,
    \* the remote repository "origin": its branches (refs/heads/* over there),
    \* and this repository's remote-tracking branches (refs/remotes/origin/*)
    origin, tracking,
    \* parse_image_dimensions (commands/diff.rs): the bytes and the format it
    \* is given, what it returned (None before the call), and a description
    \* of the file the bytes were cut from
    img_data, img_format, img_result, img_header,
    \* the list stored in recent_repos.json (commands/repos.rs), empty while
    \* the file is missing, and the last value chrono::Utc::now() gave
    recent, clock,
    \* the commit of .git/CHERRY_PICK_HEAD (NoCommit while there is no such
    \* file) and the content of .git/MERGE_MSG (None while there is none)
    cherry_pick_head, merge_msg

diffVars == <<lines, line_ix, file_path, old_path, new_path, is_binary, hunks,
              additions, deletions, current_hunk, old_line_no, new_line_no, parsed>>

handlerVars == <<h_pc, h_result, sig_configured, rb_active, rb_total, rb_current,
                 conflicts, walk_times, limit, hist_idx, commits_out, sync_phase>>

repoVars == <<wt, index, commits, refs, head, stashes, conflicted, merge_head, result, created,
              only_commits, saved, stash_removed>>

remoteVars == <<origin, tracking>>

imageVars == <<img_data, img_format, img_result, img_header>>

storeVars == <<recent, clock>>

cherryVars == <<cherry_pick_head, merge_msg>>

extVars == <<remoteVars, imageVars, storeVars, cherryVars>>

vars == <<diffVars, handlerVars, repoVars, extVars>>

(***************************************************************************)
(* parse_diff: the inputs.                                                 *)
(***************************************************************************)

\* Longest input, in lines.
MaxDiffLines == 3

\* A hunk range written without its count ("-a" or "+c" alone).
NoCount == -1

Range(sign, start, count) ==
    <<sign>> \o FormatNat(start)
        \o (IF count = NoCount THEN <<>> ELSE <<",">> \o FormatNat(count))

\* "@@ -a,b +c,d @@"
HunkHeaderText(a, b, c, d) ==
    <<"@", "@", " ">> \o Range("-", a, b) \o <<" ">> \o Range("+", c, d)
        \o <<" ", "@", "@">>

\* The (a, b, c, d) of the hunk headers the inputs are built from.
HunkArgs == {<<1, 3, 1, 4>>, <<12, NoCount, 10, NoCount>>, <<7, 0, 8, 205>>}

HunkHeaderLines == {HunkHeaderText(h[1], h[2], h[3], h[4]) : h \in HunkArgs}

DiffGitPrefix == <<"d", "i", "f", "f", " ", "-", "-", "g", "i", "t">>

\* "diff --git a/p b/p"
DiffGitText(p) == DiffGitPrefix \o <<" ", "a", "/">> \o p \o <<" ", "b", "/">> \o p

\* File paths: plain, beginning with "a/", holding a decomposed (NFD)
\* character, and holding a space.
DiffPaths == {<<"x">>, <<"a", "/", "x">>, <<"e", CombiningAcute>>, <<"m", " ", "y">>}

DiffGitLines == {DiffGitText(p) : p \in DiffPaths}

BinaryText == <<"B", "i", "n", "a", "r", "y", " ", "f", "i", "l", "e", "s">>

OtherLines ==
    { <<"@", "@">>,
      <<"-", "-", "-", " ", "a", "/", "x">>,
      <<"+", "+", "+", " ", "b", "/", "x">>,
      <<"+", "n">>, <<"-", "o">>, <<" ", "c">>, <<"\\", "n">>,
      BinaryText }

DiffLineSet == HunkHeaderLines \cup DiffGitLines \cup OtherLines

RECURSIVE SeqsUpTo(_, _)
SeqsUpTo(S, n) ==
    IF n = 0 THEN {<<>>}
    ELSE LET shorter == SeqsUpTo(S, n - 1)
         IN  shorter \cup {Append(q, x) : q \in {r \in shorter : Len(r) = n - 1}, x \in S}

(***************************************************************************)
(* parse_diff: the loop body, by branch.                                   *)
(***************************************************************************)

\* diff.rs:137-139: the third whitespace-separated token, every leading "a/"
\* trimmed; the previous value stays when the line has no third token.
ExtractFilePath(line, prev) ==
    LET parts == SplitWhitespace(line)
    IN  IF Len(parts) >= 3 THEN TrimStartMatches(parts[3], <<"a", "/">>) ELSE prev

\* diff.rs:158-160, 168-170: the start of a range token, sign(s) trimmed.
RangeStart(token, sign) ==
    LET parts == SplitOn(TrimStartMatches(token, <<sign>>), {","}, <<>>)
    IN  UnwrapOr(ParseU32(parts[1]), 1)

\* RangeLines with the default of an omitted count taken to be 0.
RangeLines_OmittedIsZero(token, sign) ==
    LET parts == SplitOn(TrimStartMatches(token, <<sign>>), {","}, <<>>)
    IN  IF Len(parts) > 1 THEN UnwrapOr(ParseU32(parts[2]), 1) ELSE 0

\* diff.rs:161-165, 171-175: the line count of a range token, 1 when omitted.
RangeLines(token, sign) ==
    LET parts == SplitOn(TrimStartMatches(token, <<sign>>), {","}, <<>>)
    IN  IF Len(parts) > 1 THEN UnwrapOr(ParseU32(parts[2]), 1) ELSE 1

\* diff.rs:180-187
NewHunk(line) ==
    LET parts == SplitWhitespace(line)
    IN  [ old_start |-> RangeStart(parts[2], "-"),
          old_lines |-> RangeLines(parts[2], "-"),
          new_start |-> RangeStart(parts[3], "+"),
          new_lines |-> RangeLines(parts[3], "+"),
          header    |-> line,
          lines     |-> <<>> ]

DiffLine(type, old_no, new_no, line) ==
    [line_type |-> type, old_line_no |-> old_no, new_line_no |-> new_no,
     content |-> Drop(line, 1)]

\* Option<T>: <<>> is None, <<x>> is Some(x).
None == <<>>

Some(x) == <<x>>

AddLine(dl) == Some([current_hunk[1] EXCEPT !.lines = Append(@, dl)])


\* The else-if chain of the loop body (diff.rs:135-189), in its order.
LineKind(line) ==
    IF StartsWith(line, DiffGitPrefix) THEN "diff"
    ELSE IF StartsWith(line, <<"-", "-", "-">>) THEN "old"
    ELSE IF StartsWith(line, <<"+", "+", "+">>) THEN "new"
    ELSE IF StartsWith(line, BinaryText) THEN "binary"
    ELSE IF StartsWith(line, <<"@", "@">>) THEN "hunk"
    ELSE IF current_hunk # None THEN "body"
    ELSE "skip"

InLoop == parsed = None /\ line_ix <= Len(lines)

Line == lines[line_ix]

(***************************************************************************)
(* The repository.                                                         *)
(***************************************************************************)

\* Files of the working directory.
Paths == {"f"}

\* A file's content is one of 1..NumContents; Absent is no file.
NumContents == 2

Absent == 0

\* The content of a file that checkout wrote with conflict markers.
ConflictMarkers == NumContents + 1

Trees == [Paths -> 0..ConflictMarkers]

EmptyTree == [p \in Paths |-> Absent]

Branches == {"main", "feature"}

\* No such branch / no commit.
NoCommit == 0

\* Commit messages, as text: one of them begins with a newline.
Messages == {<<"a">>, <<"\n", "b">>}

NoOp == [op |-> "none", ok |-> TRUE, msg |-> <<>>, val |-> 0]

\* Repository::init: nothing committed, staged or stashed; HEAD names the
\* unborn branch main.
RepoFresh ==
    /\ wt = EmptyTree
    /\ index = EmptyTree
    /\ commits = <<>>
    /\ refs = [b \in Branches |-> NoCommit]
    /\ head = "main"
    /\ stashes = <<>>
    /\ conflicted = {}
    /\ merge_head = NoCommit
    /\ result = NoOp
    /\ created = <<>>
    /\ only_commits = TRUE
    /\ saved = <<>>
    /\ stash_removed = FALSE

\* Nothing has been pushed to origin or fetched from it.
RemoteFresh ==
    /\ origin = [b \in Branches |-> NoCommit]
    /\ tracking = [b \in Branches |-> NoCommit]

NoHeader == [kind |-> "none", w |-> 0, h |-> 0, frame_at |-> 0, marker |-> 0]

\* No image is being read.
ImageIdle ==
    /\ img_data = <<>>
    /\ img_format = ""
    /\ img_result = <<>>
    /\ img_header = NoHeader

\* recent_repos.json is missing or holds an empty list.
StoreEmpty ==
    /\ recent = <<>>
    /\ clock = 0

\* No cherry-pick is in progress.
NoCherryPick ==
    /\ cherry_pick_head = NoCommit
    /\ merge_msg = <<>>

ExtFresh ==
    /\ RemoteFresh
    /\ ImageIdle
    /\ StoreEmpty
    /\ NoCherryPick

NoResult == [handler |-> "none", kind |-> "none", success |-> FALSE]

\* No handler running, no rebase on disk.
HandlersIdle ==
    /\ h_pc = "idle"
    /\ h_result = NoResult
    /\ sig_configured = TRUE
    /\ rb_active = FALSE
    /\ rb_total = 0
    /\ rb_current = 0
    /\ conflicts = <<>>
    /\ walk_times = <<>>
    /\ limit = 0
    /\ hist_idx = 0
    /\ commits_out = 0
    /\ sync_phase = "idle"

InitDiff ==
    /\ lines \in SeqsUpTo(DiffLineSet, MaxDiffLines)
    /\ line_ix = 1
    /\ file_path = <<>>
    /\ old_path = <<>>
    /\ new_path = <<>>
    /\ is_binary = FALSE
    /\ hunks = <<>>
    /\ additions = 0
    /\ deletions = 0
    /\ current_hunk = None
    /\ old_line_no = 0
    /\ new_line_no = 0
    /\ parsed = None
    /\ HandlersIdle
    /\ RepoFresh
    /\ ExtFresh

\* diff.rs:135-139
DiffGitLine ==
    /\ InLoop /\ LineKind(Line) = "diff"
    /\ file_path' = ExtractFilePath(Line, file_path)
    /\ line_ix' = line_ix + 1
    /\ UNCHANGED <<lines, old_path, new_path, is_binary, hunks, additions, deletions,
                   current_hunk, old_line_no, new_line_no, parsed>>

\* diff.rs:140-141
OldPathLine ==
    /\ InLoop /\ LineKind(Line) = "old"
    /\ old_path' = TrimStartMatches(Line, <<"-", "-", "-", " ", "a", "/">>)
    /\ line_ix' = line_ix + 1
    /\ UNCHANGED <<lines, file_path, new_path, is_binary, hunks, additions, deletions,
                   current_hunk, old_line_no, new_line_no, parsed>>

\* diff.rs:142-143
NewPathLine ==
    /\ InLoop /\ LineKind(Line) = "new"
    /\ new_path' = TrimStartMatches(Line, <<"+", "+", "+", " ", "b", "/">>)
    /\ line_ix' = line_ix + 1
    /\ UNCHANGED <<lines, file_path, old_path, is_binary, hunks, additions, deletions,
                   current_hunk, old_line_no, new_line_no, parsed>>

\* diff.rs:144-145
BinaryLine ==
    /\ InLoop /\ LineKind(Line) = "binary"
    /\ is_binary' = TRUE
    /\ line_ix' = line_ix + 1
    /\ UNCHANGED <<lines, file_path, old_path, new_path, hunks, additions, deletions,
                   current_hunk, old_line_no, new_line_no, parsed>>

\* diff.rs:146-188: the previous hunk is saved; a new one starts only when the
\* line has at least three tokens.
HunkHeaderLine ==
    /\ InLoop /\ LineKind(Line) = "hunk"
    /\ hunks' = IF current_hunk # None THEN Append(hunks, current_hunk[1]) ELSE hunks
    /\ IF Len(SplitWhitespace(Line)) >= 3
       THEN /\ current_hunk' = Some(NewHunk(Line))
            /\ old_line_no' = NewHunk(Line).old_start
            /\ new_line_no' = NewHunk(Line).new_start
       ELSE /\ current_hunk' = None
            /\ UNCHANGED <<old_line_no, new_line_no>>
    /\ line_ix' = line_ix + 1
    /\ UNCHANGED <<lines, file_path, old_path, new_path, is_binary, additions,
                   deletions, parsed>>

\* diff.rs:189-219: a line inside a hunk
HunkBodyLine ==
    /\ InLoop /\ LineKind(Line) = "body"
    /\ IF Line # <<>> /\ Head(Line) = "+"
       THEN /\ current_hunk' = AddLine(DiffLine("addition", None, Some(new_line_no), Line))
            /\ new_line_no' = new_line_no + 1
            /\ additions' = additions + 1
            /\ UNCHANGED <<old_line_no, deletions>>
       ELSE IF Line # <<>> /\ Head(Line) = "-"
       THEN /\ current_hunk' = AddLine(DiffLine("deletion", Some(old_line_no), None, Line))
            /\ old_line_no' = old_line_no + 1
            /\ deletions' = deletions + 1
            /\ UNCHANGED <<new_line_no, additions>>
       ELSE IF Line # <<>> /\ Head(Line) = " "
       THEN /\ current_hunk' =
                  AddLine(DiffLine("context", Some(old_line_no), Some(new_line_no), Line))
            /\ old_line_no' = old_line_no + 1
            /\ new_line_no' = new_line_no + 1
            /\ UNCHANGED <<additions, deletions>>
       ELSE UNCHANGED <<current_hunk, old_line_no, new_line_no, additions, deletions>>
    /\ line_ix' = line_ix + 1
    /\ UNCHANGED <<lines, file_path, old_path, new_path, is_binary, hunks, parsed>>

\* A line before the first hunk that matches no branch: the loop moves on.
SkipLine ==
    /\ InLoop /\ LineKind(Line) = "skip"
    /\ line_ix' = line_ix + 1
    /\ UNCHANGED <<lines, file_path, old_path, new_path, is_binary, hunks, additions,
                   deletions, current_hunk, old_line_no, new_line_no, parsed>>

\* diff.rs:222-235: the last hunk is saved and the result is built.
ParseDiffReturn ==
    /\ parsed = None /\ line_ix > Len(lines)
    /\ hunks' = IF current_hunk # None THEN Append(hunks, current_hunk[1]) ELSE hunks
    /\ current_hunk' = None
    /\ parsed' = Some([ file_path |-> normalize_unicode(file_path),
                        old_path  |-> normalize_unicode(old_path),
                        new_path  |-> normalize_unicode(new_path),
                        is_binary |-> is_binary,
                        hunks     |-> hunks',
                        additions |-> additions,
                        deletions |-> deletions ])
    /\ UNCHANGED <<lines, line_ix, file_path, old_path, new_path, is_binary, additions,
                   deletions, old_line_no, new_line_no>>

NextDiff ==
    \/ DiffGitLine /\ UNCHANGED <<extVars, handlerVars, repoVars>>
    \/ OldPathLine /\ UNCHANGED <<extVars, handlerVars, repoVars>>
    \/ NewPathLine /\ UNCHANGED <<extVars, handlerVars, repoVars>>
    \/ BinaryLine /\ UNCHANGED <<extVars, handlerVars, repoVars>>
    \/ HunkHeaderLine /\ UNCHANGED <<extVars, handlerVars, repoVars>>
    \/ HunkBodyLine /\ UNCHANGED <<extVars, handlerVars, repoVars>>
    \/ SkipLine /\ UNCHANGED <<extVars, handlerVars, repoVars>>
    \/ ParseDiffReturn /\ UNCHANGED <<extVars, handlerVars, repoVars>>

SpecDiff == InitDiff /\ [][NextDiff]_vars


(***************************************************************************)
(* parse_diff: claims.                                                     *)
(***************************************************************************)

Returned == parsed # None

\* What the hunk header built from h = (a, b, c, d) is to be parsed into.
ExpectedHunk(h) ==
    [ old_start |-> h[1],
      old_lines |-> IF h[2] = NoCount THEN 1 ELSE h[2],
      new_start |-> h[3],
      new_lines |-> IF h[4] = NoCount THEN 1 ELSE h[4],
      header    |-> HunkHeaderText(h[1], h[2], h[3], h[4]) ]

ArgsOf(line) == CHOOSE h \in HunkArgs : HunkHeaderText(h[1], h[2], h[3], h[4]) = line

HeaderLinesOf(input) == SelectSeq(input, LAMBDA l : l \in HunkHeaderLines)

HunkFields(h) ==
    [ old_start |-> h.old_start, old_lines |-> h.old_lines,
      new_start |-> h.new_start, new_lines |-> h.new_lines, header |-> h.header ]

\* C2: every hunk header line "@@ -a,b +c,d @@" of the input yields one hunk,
\* in input order, with old_start = a, old_lines = b, new_start = c,
\* new_lines = d (a count that is omitted reads as 1) and header = the line.
C2_HunkHeadersParsed ==
    Returned =>
        LET want == HeaderLinesOf(lines)
            got  == parsed[1].hunks
        IN  /\ Len(got) = Len(want)
            /\ \A i \in 1..Len(want) : HunkFields(got[i]) = ExpectedHunk(ArgsOf(want[i]))

\* Two different headers, one of them without counts, were parsed.
C2_Witness ==
    /\ Returned
    /\ Len(parsed[1].hunks) = 2
    /\ parsed[1].hunks[1].header = HunkHeaderText(12, NoCount, 10, NoCount)
    /\ parsed[1].hunks[1].old_lines = 1
    /\ parsed[1].hunks[2].header = HunkHeaderText(7, 0, 8, 205)

DiffGitLinesOf(input) == SelectSeq(input, LAMBDA l : l \in DiffGitLines)

\* The paths that hold no whitespace and no decomposed character, so that
\* neither the token split nor the NFC normalisation touches them.
PlainPaths == {p \in DiffPaths : Nfc(p) = p /\ \A i \in 1..Len(p) : p[i] \notin Whitespace}

\* C3: a patch whose header line is "diff --git a/p b/p" parses to
\* file_path = p: one leading "a/" is removed and the rest of the path is kept,
\* also when p itself begins with "a/".
C3_FilePathIsP ==
    \A p \in PlainPaths :
        (Returned /\ DiffGitLinesOf(lines) = <<DiffGitText(p)>>)
            => parsed[1].file_path = p


(***************************************************************************)
(* Handlers and the library calls they make.  Each library call either     *)
(* succeeds or fails (\E ok \in BOOLEAN); `?` after map_err returns Err,   *)
(* unwrap() on a failure panics.                                           *)
(***************************************************************************)

\* Most operations of one rebase.
MaxRebaseOps == 2

\* Most commits the history walk yields.
MaxWalk == 2

\* The limits get_commit_history is called with.
MaxLimit == 2

TimeKinds == {"in_range", "out_of_range"}

Result(h, k, ok) == [handler |-> h, kind |-> k, success |-> ok]

\* parse_diff not called.
DiffIdle ==
    /\ lines = <<>> /\ line_ix = 1 /\ file_path = <<>> /\ old_path = <<>>
    /\ new_path = <<>> /\ is_binary = FALSE /\ hunks = <<>> /\ additions = 0
    /\ deletions = 0 /\ current_hunk = None /\ old_line_no = 0 /\ new_line_no = 0
    /\ parsed = None

InitHandlers ==
    /\ DiffIdle
    /\ RepoFresh
    /\ ExtFresh
    /\ h_pc = "idle"
    /\ h_result = NoResult
    /\ sig_configured \in BOOLEAN
    /\ rb_active = FALSE
    /\ rb_total = 0
    /\ rb_current = 0
    /\ conflicts = <<>>
    /\ walk_times \in SeqsUpTo(TimeKinds, MaxWalk)
    /\ limit = 0
    /\ hist_idx = 0
    /\ commits_out = 0
    /\ sync_phase = "idle"

\* rebase.rs:24-42: open, revparse_single, head, find_annotated_commit (twice)
\* and repo.rebase; each failure is mapped to Err.  repo.rebase writes the
\* rebase state with n operations.
StartRebase ==
    /\ h_pc = "idle" /\ ~rb_active
    /\ \E ok \in BOOLEAN, n \in 0..MaxRebaseOps :
        IF ok
        THEN /\ rb_active' = TRUE
             /\ rb_total' = n
             /\ rb_current' = 0
             /\ conflicts' = <<>>
             /\ h_pc' = "rebase_loop"
             /\ h_result' = NoResult
        ELSE /\ h_result' = Result("start_rebase", "Err", FALSE)
             /\ UNCHANGED <<h_pc, rb_active, rb_total, rb_current, conflicts>>
    /\ UNCHANGED <<sig_configured, walk_times, limit, hist_idx, commits_out, sync_phase>>

\* The signature argument of rebase.commit (rebase.rs:49).
RebaseSignature == IF sig_configured THEN "sig" ELSE "panic"

\* rebase.rs:46-58: one iteration of `while let Some(op) = rebase.next()`.
RebaseLoop ==
    /\ h_pc = "rebase_loop"
    /\ IF rb_current = rb_total
       THEN \* rebase.next() is None
            /\ h_pc' = "rebase_end"
            /\ UNCHANGED <<h_result, rb_current, conflicts>>
       ELSE \E next_ok \in BOOLEAN, commit_ok \in BOOLEAN :
            IF ~next_ok
            THEN /\ conflicts' = Append(conflicts, "next")
                 /\ h_pc' = "rebase_end"
                 /\ UNCHANGED <<h_result, rb_current>>
            ELSE /\ rb_current' = rb_current + 1
                 /\ IF RebaseSignature = "panic"
                    THEN /\ h_result' = Result("start_rebase", "Panic", FALSE)
                         /\ h_pc' = "idle"
                         /\ UNCHANGED conflicts
                    ELSE /\ conflicts' =
                                IF commit_ok THEN conflicts ELSE Append(conflicts, "commit")
                         /\ UNCHANGED <<h_pc, h_result>>
    /\ UNCHANGED <<sig_configured, rb_active, rb_total, walk_times, limit, hist_idx,
                   commits_out, sync_phase>>

\* rebase.rs:60-75
RebaseEnd ==
    /\ h_pc = "rebase_end"
    /\ h_pc' = "idle"
    /\ IF conflicts = <<>>
       THEN \E finish_ok \in BOOLEAN :
            IF finish_ok
            THEN /\ rb_active' = FALSE
                 /\ h_result' = Result("start_rebase", "Ok", TRUE)
            ELSE /\ h_result' = Result("start_rebase", "Err", FALSE)
                 /\ UNCHANGED rb_active
       ELSE /\ h_result' = Result("start_rebase", "Ok", FALSE)
            /\ UNCHANGED rb_active
    /\ UNCHANGED <<sig_configured, rb_total, rb_current, conflicts, walk_times, limit,
                   hist_idx, commits_out, sync_phase>>

\* rebase.rs:108-119
RebaseAbort ==
    /\ h_pc = "idle"
    /\ \E ok \in BOOLEAN :
        IF rb_active /\ ok
        THEN /\ rb_active' = FALSE
             /\ h_result' = Result("rebase_abort", "Ok", TRUE)
        ELSE /\ h_result' = Result("rebase_abort", "Err", FALSE)
             /\ UNCHANGED rb_active
    /\ UNCHANGED <<h_pc, sig_configured, rb_total, rb_current, conflicts, walk_times,
                   limit, hist_idx, commits_out, sync_phase>>

\* git.rs:92-101: open, revwalk, push_head, set_sorting; each failure is
\* mapped to Err.
HistoryStart ==
    /\ h_pc = "idle"
    /\ \E ok \in BOOLEAN, l \in 0..MaxLimit :
        IF ok
        THEN /\ limit' = l
             /\ hist_idx' = 0
             /\ commits_out' = 0
             /\ h_pc' = "history_loop"
             /\ h_result' = NoResult
        ELSE /\ h_result' = Result("get_commit_history", "Err", FALSE)
             /\ UNCHANGED <<h_pc, limit, hist_idx, commits_out>>
    /\ UNCHANGED <<sig_configured, rb_active, rb_total, rb_current, conflicts,
                   walk_times, sync_phase>>

\* chrono's Utc.timestamp_opt(seconds, 0) (git.rs:113): a LocalResult, None
\* for a time chrono cannot represent.
TimestampOpt(kind) == IF kind = "in_range" THEN "Single" ELSE "None"

\* git.rs:103-128: one iteration of the loop over the walk.
HistoryLoop ==
    /\ h_pc = "history_loop"
    /\ IF hist_idx >= Len(walk_times) \/ hist_idx >= limit
       THEN /\ h_result' = Result("get_commit_history", "Ok", TRUE)
            /\ h_pc' = "idle"
            /\ UNCHANGED <<hist_idx, commits_out>>
       ELSE \E ok \in BOOLEAN :
            IF ~ok
            THEN \* oid_result or find_commit failed
                 /\ h_result' = Result("get_commit_history", "Err", FALSE)
                 /\ h_pc' = "idle"
                 /\ UNCHANGED <<hist_idx, commits_out>>
            ELSE IF TimestampOpt(walk_times[hist_idx + 1]) = "None"
            THEN \* LocalResult::unwrap
                 /\ h_result' = Result("get_commit_history", "Panic", FALSE)
                 /\ h_pc' = "idle"
                 /\ UNCHANGED <<hist_idx, commits_out>>
            ELSE /\ hist_idx' = hist_idx + 1
                 /\ commits_out' = commits_out + 1
                 /\ UNCHANGED <<h_pc, h_result>>
    /\ UNCHANGED <<sig_configured, rb_active, rb_total, rb_current, conflicts,
                   walk_times, limit, sync_phase>>

\* remote.rs:105-118: open, the progress update under the lock, find_remote.
\* No code holding the SYNC_PROGRESS lock can panic, so the mutex is never
\* poisoned and lock().unwrap() returns the guard.
FetchStart ==
    /\ h_pc = "idle"
    /\ \E open_ok \in BOOLEAN, find_ok \in BOOLEAN :
        IF ~open_ok
        THEN /\ h_result' = Result("fetch_remote", "Err", FALSE)
             /\ UNCHANGED <<h_pc, sync_phase>>
        ELSE /\ sync_phase' = "fetching"
             /\ IF find_ok
                THEN /\ h_pc' = "fetch"
                     /\ h_result' = NoResult
                ELSE /\ h_result' = Result("fetch_remote", "Err", FALSE)
                     /\ UNCHANGED h_pc
    /\ UNCHANGED <<sig_configured, rb_active, rb_total, rb_current, conflicts,
                   walk_times, limit, hist_idx, commits_out>>

\* remote.rs:136-147: the fetch, then the progress reset.
FetchRun ==
    /\ h_pc = "fetch"
    /\ h_pc' = "idle"
    /\ \E ok \in BOOLEAN :
        IF ok
        THEN /\ sync_phase' = "idle"
             /\ h_result' = Result("fetch_remote", "Ok", TRUE)
        ELSE /\ h_result' = Result("fetch_remote", "Err", FALSE)
             /\ UNCHANGED sync_phase
    /\ UNCHANGED <<sig_configured, rb_active, rb_total, rb_current, conflicts,
                   walk_times, limit, hist_idx, commits_out>>

NextHandlers ==
    \/ StartRebase /\ UNCHANGED <<extVars, diffVars, repoVars>>
    \/ RebaseLoop /\ UNCHANGED <<extVars, diffVars, repoVars>>
    \/ RebaseEnd /\ UNCHANGED <<extVars, diffVars, repoVars>>
    \/ RebaseAbort /\ UNCHANGED <<extVars, diffVars, repoVars>>
    \/ HistoryStart /\ UNCHANGED <<extVars, diffVars, repoVars>>
    \/ HistoryLoop /\ UNCHANGED <<extVars, diffVars, repoVars>>
    \/ FetchStart /\ UNCHANGED <<extVars, diffVars, repoVars>>
    \/ FetchRun /\ UNCHANGED <<extVars, diffVars, repoVars>>

SpecHandlers == InitHandlers /\ [][NextHandlers]_vars

(***************************************************************************)
(* Handlers: claims.                                                       *)
(***************************************************************************)

\* C1: whenever a library call fails the handler returns Err with a message;
\* no handler panics on a library failure (a missing user signature during
\* start_rebase, a commit time that cannot be converted in get_commit_history).
C1_NoHandlerPanics == h_result.kind # "Panic"


(***************************************************************************)
(* The repository handlers (commands/git.rs, amend.rs).  The library calls *)
(* are libgit2's; what they do to the repository is written out here.      *)
(***************************************************************************)

\* Most commit objects.
MaxCommits == 3

HeadCommit == refs[head]

\* repo.head() fails while the branch HEAD names has no commit.
HeadUnborn == HeadCommit = NoCommit

HeadTree == IF HeadUnborn THEN EmptyTree ELSE commits[HeadCommit].tree

Ok(op, val) == [op |-> op, ok |-> TRUE, msg |-> <<>>, val |-> val]

Err(op, msg) == [op |-> op, ok |-> FALSE, msg |-> msg, val |-> 0]

RECURSIVE TrimLeadingNewlines(_)
\* git_commit_message, behind Commit::message(): the raw message with its
\* leading newlines skipped.
TrimLeadingNewlines(m) ==
    IF m # <<>> /\ Head(m) = "\n" THEN TrimLeadingNewlines(Tail(m)) ELSE m

CommitMessage(c) == TrimLeadingNewlines(commits[c].message)

\* The user edits, creates or deletes a file of the working directory.
WriteFile(p, c) ==
    /\ wt[p] # c
    /\ wt' = [wt EXCEPT ![p] = c]
    /\ UNCHANGED <<index, commits, refs, head, stashes, conflicted, result, created,
                   only_commits, saved, stash_removed>>

\* git.rs:195-209: index.add_path reads the file of the working directory
\* and replaces the entry of the path, a conflict included.
StageFile(p) ==
    /\ IF wt[p] = Absent
       THEN /\ result' = Err("stage_file", <<"stage", "failed">>)
            /\ UNCHANGED <<index, conflicted>>
       ELSE /\ index' = [index EXCEPT ![p] = wt[p]]
            /\ conflicted' = conflicted \ {p}
            /\ result' = Ok("stage_file", 0)
    /\ UNCHANGED <<wt, commits, refs, head, stashes, created, only_commits, saved,
                   stash_removed>>

\* git.rs:258-275: add_all stages every file of the working directory and
\* update_all removes the entries of the files that are gone.
StageAll ==
    /\ index' = wt
    /\ conflicted' = {}
    /\ result' = Ok("stage_all", 0)
    /\ UNCHANGED <<wt, commits, refs, head, stashes, created, only_commits, saved,
                   stash_removed>>

\* git.rs:213-254: repo.head() first, then the entry is reset to HEAD's, or
\* removed when HEAD's tree has no such path.
UnstageFile(p) ==
    /\ IF HeadUnborn
       THEN /\ result' = Err("unstage_file", <<"reference", "not", "found">>)
            /\ UNCHANGED <<index, conflicted>>
       ELSE /\ index' = [index EXCEPT ![p] = HeadTree[p]]
            /\ conflicted' = conflicted \ {p}
            /\ result' = Ok("unstage_file", 0)
    /\ UNCHANGED <<wt, commits, refs, head, stashes, created, only_commits, saved,
                   stash_removed>>

\* git.rs:148, 153-161: the index against HEAD's tree.  A conflicted path
\* has none of the index_* and wt_* flags.
StagedStatus(p) ==
    IF p \in conflicted THEN "none"
    ELSE IF HeadTree[p] = Absent /\ index[p] # Absent THEN "untracked"
    ELSE IF HeadTree[p] # Absent /\ index[p] # Absent /\ HeadTree[p] # index[p]
    THEN "modified"
    ELSE IF HeadTree[p] # Absent /\ index[p] = Absent THEN "deleted"
    ELSE "none"

\* git.rs:149, 171-179: the working directory against the index.
UnstagedStatus(p) ==
    IF p \in conflicted THEN "none"
    ELSE IF index[p] = Absent /\ wt[p] # Absent THEN "untracked"
    ELSE IF index[p] # Absent /\ wt[p] # Absent /\ index[p] # wt[p] THEN "modified"
    ELSE IF index[p] # Absent /\ wt[p] = Absent THEN "deleted"
    ELSE "none"

\* git.rs:135-191: the FileStatus entries, as a set.
get_repository_status ==
    {[path |-> p, status |-> StagedStatus(p), staged |-> TRUE] :
        p \in {q \in Paths : StagedStatus(q) # "none"}}
    \cup
    {[path |-> p, status |-> UnstagedStatus(p), staged |-> FALSE] :
        p \in {q \in Paths : UnstagedStatus(q) # "none"}}

\* git.rs:294-305: the parents of a new commit.
CommitParents == IF HeadUnborn THEN <<>> ELSE <<HeadCommit>>

NewCommit_FirstParentOnly(parents, tree, message) ==
    [parents |-> IF parents = <<>> THEN <<>> ELSE <<parents[1]>>,
     tree |-> tree, message |-> message]

NewCommit(parents, tree, message) ==
    [parents |-> parents, tree |-> tree, message |-> message]

\* git.rs:279-318: the index is written as a tree and committed on HEAD.
CreateCommit(m) ==
    /\ IF ~sig_configured
       THEN /\ result' = Err("create_commit", <<"signature", "not", "found">>)
            /\ UNCHANGED <<commits, refs, created>>
       ELSE IF conflicted # {}
       THEN \* index.write_tree
            /\ result' = Err("create_commit", <<"unmerged", "index">>)
            /\ UNCHANGED <<commits, refs, created>>
       ELSE /\ commits' = Append(commits, NewCommit(CommitParents, index, m))
            /\ refs' = [refs EXCEPT ![head] = Len(commits) + 1]
            /\ result' = Ok("create_commit", Len(commits) + 1)
            /\ created' = Append(created, m)
    /\ UNCHANGED <<wt, index, head, stashes, conflicted, only_commits, saved,
                   stash_removed>>

\* An amend that stacks the new commit on the one it was to replace.
AmendParents_OnTop == <<HeadCommit>>

\* Commit::amend (amend.rs:35-42): the new commit keeps the parents of the one
\* it replaces.
AmendParents == commits[HeadCommit].parents

\* An amend that, like create_commit (git.rs:294-299), takes a failing
\* repo.head() to mean "no parent" and writes a first commit.
AmendCommit_RootWhenUnborn(m) ==
    /\ IF ~sig_configured
       THEN /\ result' = Err("amend_commit", <<"Failed", "to", "get", "signature">>)
            /\ UNCHANGED <<commits, refs, only_commits>>
       ELSE /\ commits' = Append(commits,
                    NewCommit(IF HeadUnborn THEN <<>> ELSE commits[HeadCommit].parents,
                              index, m))
            /\ refs' = [refs EXCEPT ![head] = Len(commits) + 1]
            /\ result' = Ok("amend_commit", Len(commits) + 1)
            /\ only_commits' = FALSE
    /\ UNCHANGED <<wt, index, head, stashes, conflicted, created, saved, stash_removed>>

\* amend.rs:6-45
AmendCommit(m) ==
    /\ IF HeadUnborn
       THEN /\ result' = Err("amend_commit", <<"Failed", "to", "get", "HEAD">>)
            /\ UNCHANGED <<commits, refs, only_commits>>
       ELSE IF conflicted # {}
       THEN /\ result' = Err("amend_commit", <<"Failed", "to", "write", "tree">>)
            /\ UNCHANGED <<commits, refs, only_commits>>
       ELSE IF ~sig_configured
       THEN /\ result' = Err("amend_commit", <<"Failed", "to", "get", "signature">>)
            /\ UNCHANGED <<commits, refs, only_commits>>
       ELSE /\ commits' = Append(commits, NewCommit(AmendParents, index, m))
            /\ refs' = [refs EXCEPT ![head] = Len(commits) + 1]
            /\ result' = Ok("amend_commit", Len(commits) + 1)
            /\ only_commits' = FALSE
    /\ UNCHANGED <<wt, index, head, stashes, conflicted, created, saved, stash_removed>>

SetMax(S) == CHOOSE x \in S : \A y \in S : y <= x

RangeOf(q) == {q[i] : i \in 1..Len(q)}

RECURSIVE Revwalk(_, _)
\* Revwalk with Sort::TIME from the commits in `queue`: the most recent queued
\* commit comes next and its parents are queued.  Commit ids grow with the
\* commit time.
Revwalk(queue, out) ==
    IF queue = {} THEN out
    ELSE LET c == SetMax(queue)
         IN  Revwalk((queue \cup RangeOf(commits[c].parents))
                        \ (RangeOf(out) \cup {c}),
                     Append(out, c))

CommitInfo(c) ==
    [sha |-> c, message |-> CommitMessage(c), parent_ids |-> commits[c].parents]

Min(a, b) == IF a < b THEN a ELSE b

\* A loop that stops one commit late (idx > limit).
TakeLimit_OneMore(walk, n) == SubSeq(walk, 1, Min(n + 1, Len(walk)))

\* The loop of git.rs:103-128 stops at `limit` commits.
TakeLimit(walk, n) == SubSeq(walk, 1, Min(n, Len(walk)))

\* git.rs:92-131: push_head fails on an unborn HEAD.
get_commit_history(n) ==
    IF HeadUnborn THEN Err("get_commit_history", <<"reference", "not", "found">>)
    ELSE LET walk == TakeLimit(Revwalk({HeadCommit}, <<>>), n)
         IN  Ok("get_commit_history", [i \in 1..Len(walk) |-> CommitInfo(walk[i])])

InitRepo ==
    /\ DiffIdle
    /\ HandlersIdle
    /\ RepoFresh
    /\ ExtFresh

\* The configuration of the user's name and e-mail, set or removed outside
\* the application.
Configure ==
    /\ sig_configured' = ~sig_configured
    /\ UNCHANGED <<h_pc, h_result, rb_active, rb_total, rb_current, conflicts,
                   walk_times, limit, hist_idx, commits_out, sync_phase>>

Next ==
    \/ \E p \in Paths, c \in 0..NumContents :
          WriteFile(p, c) /\ UNCHANGED <<extVars, diffVars, handlerVars, merge_head>>
    \/ \E p \in Paths : StageFile(p) /\ UNCHANGED <<extVars, diffVars, handlerVars, merge_head>>
    \/ \E p \in Paths : UnstageFile(p) /\ UNCHANGED <<extVars, diffVars, handlerVars, merge_head>>
    \/ \E m \in Messages :
          /\ Len(commits) < MaxCommits
          /\ CreateCommit(m)
          /\ UNCHANGED <<extVars, diffVars, handlerVars, merge_head>>
    \/ \E m \in Messages :
          /\ Len(commits) < MaxCommits
          /\ AmendCommit(m)
          /\ UNCHANGED <<extVars, diffVars, handlerVars, merge_head>>
    \/ Configure /\ UNCHANGED <<extVars, diffVars, repoVars>>

Spec == InitRepo /\ [][Next]_vars


(***************************************************************************)
(* Repository: claims.                                                     *)
(***************************************************************************)

StatusOf(p) == {e \in get_repository_status : e.path = p}

\* C4: in a repository with no commits, once stage_file(f) has staged the new
\* file f, unstage_file(f) returns Ok and get_repository_status then reports
\* f with staged = false and no entry of f with staged = true.
C4_UnstageInFreshRepo ==
    [][\A p \in Paths :
          (commits = <<>> /\ index[p] # Absent /\ wt[p] # Absent /\ UnstageFile(p))
            => /\ result'.ok
               /\ \E e \in StatusOf(p)' : ~e.staged
               /\ \A e \in StatusOf(p)' : ~e.staged]_vars

Reverse(q) == [i \in 1..Len(q) |-> q[Len(q) + 1 - i]]

HistoryMessages(h) == [i \in 1..Len(h.val) |-> h.val[i].message]

\* C5: after n successful create_commit calls in a fresh repository,
\* get_commit_history(limit) returns exactly min(n, limit) commits, newest
\* first, each with the message passed to the create_commit that made it.
C5_HistoryOfCreated ==
    only_commits =>
        \A l \in 0..MaxCommits + 1 :
            LET h == get_commit_history(l)
                n == Len(created)
            IN  /\ h.ok
                /\ Len(h.val) = Min(n, l)
                /\ HistoryMessages(h) = SubSeq(Reverse(created), 1, Min(n, l))

\* C5 as amended: for n >= 1, and with each message returned without its
\* leading newlines.
C5_HistoryOfCreated_Amended ==
    (only_commits /\ Len(created) >= 1) =>
        \A l \in 0..MaxCommits + 1 :
            LET h == get_commit_history(l)
                n == Len(created)
                want == SubSeq(Reverse(created), 1, Min(n, l))
            IN  /\ h.ok
                /\ Len(h.val) = Min(n, l)
                /\ HistoryMessages(h) =
                       [i \in 1..Len(want) |-> TrimLeadingNewlines(want[i])]

\* Two commits were created with different messages and nothing was amended.
C5_Witness ==
    /\ only_commits
    /\ Len(created) = 2
    /\ created[1] # created[2]
    /\ Len(get_commit_history(1).val) = 1

RECURSIVE Ancestors(_, _)
\* The commits reachable from the commits of `todo` (themselves included),
\* in the object store cs.
Ancestors(cs, todo) ==
    IF todo = {} THEN {}
    ELSE LET c == CHOOSE x \in todo : TRUE
         IN  {c} \cup Ancestors(cs, (todo \ {c}) \cup RangeOf(cs[c].parents))

ReachableFrom(cs, c) == IF c = NoCommit THEN {} ELSE Ancestors(cs, {c})

AmendSucceeds == \E m \in Messages : AmendCommit(m) /\ result'.ok

\* C6: a successful amend_commit replaces the HEAD commit by a commit with the
\* same parents: the number of commits reachable from HEAD is unchanged and
\* every ancestor of the old HEAD commit is still an ancestor of HEAD.
C6_AmendKeepsParents ==
    [][AmendSucceeds =>
          /\ HeadCommit' # HeadCommit
          /\ commits'[HeadCommit'].parents = commits[HeadCommit].parents
          /\ Cardinality(ReachableFrom(commits', HeadCommit'))
                = Cardinality(ReachableFrom(commits, HeadCommit))
          /\ (ReachableFrom(commits, HeadCommit) \ {HeadCommit})
                \subseteq (ReachableFrom(commits', HeadCommit') \ {HeadCommit'})]_vars

\* A commit that has a parent was amended.
C6_Witness ==
    /\ result.op = "amend_commit" /\ result.ok
    /\ HeadCommit = result.val
    /\ commits[HeadCommit].parents # <<>>

\* C7: in a repository with no commits, amend_commit returns Err with a
\* message that contains "HEAD", creates no commit and leaves HEAD and the
\* index unchanged.
C7_AmendWithoutCommits ==
    [][(commits = <<>> /\ \E m \in Messages : AmendCommit(m)) =>
          /\ ~result'.ok
          /\ "HEAD" \in RangeOf(result'.msg)
          /\ commits' = commits
          /\ refs' = refs
          /\ head' = head
          /\ index' = index]_vars

\* amend_commit has failed in a repository that has no commit but has a
\* staged file.
C7_Witness ==
    /\ result.op = "amend_commit" /\ ~result.ok
    /\ commits = <<>>
    /\ \E p \in Paths : index[p] # Absent


\* ---------------------------------------------------------------------------
\* commands/stash.rs: the stash handlers
\* ---------------------------------------------------------------------------

\* The most stashes the model saves.
MaxStash == 2

\* The message the caller passes to stash_save (Option<String>): the stash
\* scenarios pass none.
StashMessages == {None}

\* stash.rs:30: message.as_deref().unwrap_or("WIP"); the library prefixes
\* the branch.
StashMessage(m) == <<"On", head>> \o (IF m = None THEN <<"WIP">> ELSE m[1])

\* stash.rs:25-28, 32: what git_stash_save finds to stash under the flags:
\* staged changes, changes of tracked files and, with INCLUDE_UNTRACKED,
\* untracked files.
HasChangesToStash(include_untracked) ==
    \E p \in Paths :
        \/ index[p] # HeadTree[p]
        \/ index[p] # Absent /\ wt[p] # index[p]
        \/ include_untracked /\ index[p] = Absent /\ wt[p] # Absent

\* stash.rs:32: the tree of the stash commit: the working directory's
\* content of the paths of HEAD, the index's content of the others.
StashWorkTree == [p \in Paths |-> IF HeadTree[p] # Absent THEN wt[p] ELSE index[p]]

\* stash.rs:32: the tree of the untracked files, kept with INCLUDE_UNTRACKED.
StashUntrackedTree(include_untracked) ==
    [p \in Paths |->
        IF include_untracked /\ index[p] = Absent /\ HeadTree[p] = Absent
        THEN wt[p] ELSE Absent]

\* stash.rs:32: the working directory after the save: tracked paths are
\* reset to HEAD, untracked files are removed only when they were stashed.
StashResetWorkdir(include_untracked) ==
    [p \in Paths |->
        IF HeadTree[p] # Absent THEN HeadTree[p]
        ELSE IF index[p] # Absent \/ include_untracked THEN Absent
        ELSE wt[p]]

PushStash_AtEnd(entry) == Append(stashes, entry)

\* stash.rs:32: the new entry becomes stash@{0}.
PushStash(entry) == <<entry>> \o stashes

\* stash.rs:14-36
StashSave(m, include_untracked) ==
    /\ IF ~sig_configured
       THEN /\ result' = Err("stash_save", <<"Failed", "to", "get", "signature">>)
            /\ UNCHANGED <<wt, index, stashes, saved>>
       ELSE IF HeadUnborn \/ conflicted # {} \/ ~HasChangesToStash(include_untracked)
       THEN /\ result' = Err("stash_save", <<"Failed", "to", "create", "stash">>)
            /\ UNCHANGED <<wt, index, stashes, saved>>
       ELSE LET oid == Len(saved) + 1
                entry == [oid |-> oid, message |-> StashMessage(m),
                          base |-> HeadTree, wtree |-> StashWorkTree,
                          untracked |-> StashUntrackedTree(include_untracked)]
            IN /\ stashes' = PushStash(entry)
               /\ saved' = Append(saved, oid)
               /\ wt' = StashResetWorkdir(include_untracked)
               /\ index' = HeadTree
               /\ result' = Ok("stash_save", oid)
    /\ UNCHANGED <<commits, refs, head, conflicted, created, only_commits, stash_removed>>

\* stash.rs:40-56: stash_foreach passes the position of the entry, from 0.
stash_list ==
    [i \in 1..Len(stashes) |->
        [index |-> i - 1, message |-> stashes[i].message, oid |-> stashes[i].oid]]

\* stash.rs:66, 81, 96: the entry at a position, when there is one.
HasStash(i) == i < Len(stashes)

\* stash.rs:66: git_stash_apply on one path, with the default options (the
\* index is not reinstated, the checkout is safe).  The stashed content is
\* merged with the index's on the base of the stash; the result is
\*   "keep"     the path is as the stash wants it or the stash left it alone,
\*   "take"     the stashed content is written to the working directory,
\*   "conflict" both sides changed the path: the index entry is a conflict,
\*   "blocked"  a local change of the working directory would be lost.
ApplyKind(st, p) ==
    LET B == st.base[p]
        S == st.wtree[p]
        U == st.untracked[p]
        O == index[p]
        W == wt[p]
    IN IF U # Absent
       THEN IF W = Absent \/ W = U THEN "untracked" ELSE "blocked"
       ELSE IF S = B \/ O = S THEN "keep"
       ELSE IF W # O /\ W # S THEN "blocked"
       ELSE IF O = B THEN "take"
       ELSE "conflict"

\* stash.rs:66: what a conflict leaves in the working directory: the file
\* with conflict markers when both sides have the path, else the side that
\* has it.
ConflictFile(ours, theirs) ==
    IF ours # Absent /\ theirs # Absent THEN ConflictMarkers
    ELSE IF theirs # Absent THEN theirs ELSE ours

\* stash.rs:66: the effect of git_stash_apply(i) on the working directory and
\* the index; nothing is written when it fails.
ApplyEffect(i) ==
    IF ~HasStash(i) \/ conflicted # {}
    THEN [ok |-> FALSE, wt |-> wt, index |-> index, conflicted |-> conflicted]
    ELSE LET st == stashes[i + 1]
             kind == [p \in Paths |-> ApplyKind(st, p)]
         IN IF \E p \in Paths : kind[p] = "blocked"
            THEN [ok |-> FALSE, wt |-> wt, index |-> index, conflicted |-> conflicted]
            ELSE [ok |-> TRUE,
                  wt |-> [p \in Paths |->
                            CASE kind[p] = "untracked" -> st.untracked[p]
                              [] kind[p] = "take" -> st.wtree[p]
                              [] kind[p] = "conflict" -> ConflictFile(index[p], st.wtree[p])
                              [] OTHER -> wt[p]],
                  index |-> [p \in Paths |->
                            CASE kind[p] = "take" /\ st.base[p] = Absent -> st.wtree[p]
                              [] OTHER -> index[p]],
                  conflicted |-> {p \in Paths : kind[p] = "conflict"}]

\* stash.rs:60-71
StashApply(i) ==
    LET e == ApplyEffect(i)
    IN /\ wt' = e.wt
       /\ index' = e.index
       /\ conflicted' = e.conflicted
       /\ result' = IF e.ok THEN Ok("stash_apply", i)
                    ELSE Err("stash_apply", <<"Failed", "to", "apply", "stash">>)
       /\ UNCHANGED <<commits, refs, head, stashes, created, only_commits, saved,
                      stash_removed>>

DropEntry_Newest(i) == Tail(stashes)

\* stash.rs:96: git_stash_drop removes the entry at the position and keeps
\* the order of the others.
DropEntry(i) == SubSeq(stashes, 1, i) \o SubSeq(stashes, i + 2, Len(stashes))

\* stash.rs:90-101
StashDrop(i) ==
    /\ IF HasStash(i)
       THEN /\ stashes' = DropEntry(i)
            /\ stash_removed' = TRUE
            /\ result' = Ok("stash_drop", i)
       ELSE /\ result' = Err("stash_drop", <<"Failed", "to", "drop", "stash">>)
            /\ UNCHANGED <<stashes, stash_removed>>
    /\ UNCHANGED <<wt, index, commits, refs, head, conflicted, created, only_commits,
                   saved>>

\* stash.rs:75-86: git_stash_pop applies the entry and, when that
\* succeeded, drops it.
StashPop(i) ==
    LET e == ApplyEffect(i)
    IN /\ wt' = e.wt
       /\ index' = e.index
       /\ conflicted' = e.conflicted
       /\ IF e.ok
          THEN /\ stashes' = DropEntry(i)
               /\ stash_removed' = TRUE
               /\ result' = Ok("stash_pop", i)
          ELSE /\ result' = Err("stash_pop", <<"Failed", "to", "pop", "stash">>)
               /\ UNCHANGED <<stashes, stash_removed>>
       /\ UNCHANGED <<commits, refs, head, created, only_commits, saved>>

\* The most commits the stash scenarios make.
MaxStashCommits == 1

InitStash ==
    /\ DiffIdle
    /\ HandlersIdle
    /\ RepoFresh
    /\ ExtFresh

NextStash ==
    \/ \E p \in Paths, c \in 0..NumContents :
          WriteFile(p, c) /\ UNCHANGED <<extVars, diffVars, handlerVars, merge_head>>
    \/ \E p \in Paths : StageFile(p) /\ UNCHANGED <<extVars, diffVars, handlerVars, merge_head>>
    \/ /\ Len(commits) < MaxStashCommits
       /\ CreateCommit(<<"a">>)
       /\ UNCHANGED <<extVars, diffVars, handlerVars, merge_head>>
    \/ \E m \in StashMessages, u \in BOOLEAN :
          /\ Len(saved) < MaxStash
          /\ StashSave(m, u)
          /\ UNCHANGED <<extVars, diffVars, handlerVars, merge_head>>
    \/ \E i \in 0..Len(stashes) : StashApply(i) /\ UNCHANGED <<extVars, diffVars, handlerVars, merge_head>>
    \/ \E i \in 0..Len(stashes) : StashPop(i) /\ UNCHANGED <<extVars, diffVars, handlerVars, merge_head>>
    \/ \E i \in 0..Len(stashes) : StashDrop(i) /\ UNCHANGED <<extVars, diffVars, handlerVars, merge_head>>

SpecStash == InitStash /\ [][NextStash]_vars

\* ---------------------------------------------------------------------------
\* Claims about the stash handlers
\* ---------------------------------------------------------------------------

\* C8: stash_list numbers the entries 0..n-1 and lists them newest first:
\* the oids are in the reverse of the order in which stash_save returned
\* them, and while nothing was dropped or popped the list is exactly the
\* saved stashes, the last saved at index 0.
C8_StashListNewestFirst ==
    LET l == stash_list
    IN /\ \A i \in 1..Len(l) : l[i].index = i - 1
       /\ \A i, j \in 1..Len(l) : i < j => l[i].oid > l[j].oid
       /\ ~stash_removed =>
             /\ Len(l) = Len(saved)
             /\ \A i \in 1..Len(l) : l[i].oid = saved[Len(saved) + 1 - i]

\* Two stashes were saved and both are listed.
C8_Witness ==
    /\ result.op = "stash_save"
    /\ result.ok
    /\ Len(stash_list) = 2
    /\ ~stash_removed

\* What an apply of the entry restores when nothing changed since the save:
\* the stashed content of every path.
StashedContent(st) ==
    [p \in Paths |-> IF st.untracked[p] # Absent THEN st.untracked[p] ELSE st.wtree[p]]

UnchangedSince(st) ==
    /\ conflicted = {}
    /\ index = st.base
    /\ \A p \in Paths : wt[p] = (IF st.untracked[p] # Absent THEN Absent ELSE st.base[p])

\* C9: a stash_pop(i) that succeeds leaves the working directory and the
\* index as stash_apply(i) leaves them and the stash list without entry i,
\* the other entries in their order; a stash_apply(i) that succeeds leaves
\* the stash list as it was; both restore the stashed content when nothing
\* changed since the save.
C9_PopIsApplyThenDrop ==
    [][\A i \in 0..MaxStash :
          LET e == ApplyEffect(i)
          IN /\ (result'.op = "stash_pop" /\ result'.ok /\ StashPop(i)) =>
                   /\ HasStash(i) /\ e.ok
                   /\ wt' = e.wt /\ index' = e.index /\ conflicted' = e.conflicted
                   /\ Len(stashes') = Len(stashes) - 1
                   /\ \A j \in 1..Len(stashes') :
                         stashes'[j] = stashes[IF j <= i THEN j ELSE j + 1]
                   /\ UnchangedSince(stashes[i + 1]) => wt' = StashedContent(stashes[i + 1])
             /\ (result'.op = "stash_apply" /\ result'.ok /\ StashApply(i)) =>
                   /\ HasStash(i) /\ e.ok
                   /\ wt' = e.wt /\ index' = e.index /\ conflicted' = e.conflicted
                   /\ stashes' = stashes
                   /\ UnchangedSince(stashes[i + 1]) => wt' = StashedContent(stashes[i + 1])
      ]_vars

\* The older of two stashes was popped: the newer one is left, and the
\* working directory has a change again.
C9_Witness ==
    /\ result.op = "stash_pop"
    /\ result.ok
    /\ result.val = 1
    /\ Len(stashes) = 1
    /\ stashes[1].oid = 2
    /\ wt # HeadTree

\* ---------------------------------------------------------------------------
\* commands/branch.rs, commands/merge.rs: branches and merges
\* ---------------------------------------------------------------------------

\* The most commit objects the merge scenarios make.
MaxMergeCommits == 3

OkMsg(op, msg) == [op |-> op, ok |-> TRUE, msg |-> msg, val |-> 0]

\* branch.rs:113, merge.rs:15: find_branch(name, BranchType::Local)
BranchExists(b) == refs[b] # NoCommit

\* branch.rs:88-101.  The branch names of the model are ASCII, which
\* normalize_unicode leaves as they are.
CreateBranch(b) ==
    /\ IF HeadUnborn
       THEN /\ result' = Err("create_branch", <<"reference", "not", "found">>)
            /\ UNCHANGED refs
       ELSE IF BranchExists(b)
       THEN /\ result' = Err("create_branch", <<"branch", "already", "exists">>)
            /\ UNCHANGED refs
       ELSE /\ refs' = [refs EXCEPT ![b] = HeadCommit]
            /\ result' = OkMsg("create_branch", <<"Branch", b, "created", "successfully">>)
    /\ UNCHANGED <<wt, index, commits, head, stashes, conflicted, merge_head, created,
                   only_commits, saved, stash_removed>>

\* branch.rs:120-123: checkout_head with force writes every file of the
\* tree to the working directory and the index, and leaves the other paths.
ForceCheckout(tree, old) == [p \in Paths |-> IF tree[p] # Absent THEN tree[p] ELSE old[p]]

\* branch.rs:105-125
SwitchBranch(b) ==
    /\ IF ~BranchExists(b)
       THEN /\ result' = Err("switch_branch", <<"Branch", b, "not", "found">>)
            /\ UNCHANGED <<wt, index, head, conflicted, only_commits>>
       ELSE LET tree == commits[refs[b]].tree
            IN /\ head' = b
               /\ wt' = ForceCheckout(tree, wt)
               /\ index' = ForceCheckout(tree, index)
               /\ conflicted' = {p \in conflicted : tree[p] = Absent}
               /\ only_commits' = FALSE
               /\ result' = OkMsg("switch_branch", <<"Switched", "to", "branch", b>>)
    /\ UNCHANGED <<commits, refs, stashes, merge_head, created, saved, stash_removed>>

MergeAnalysis_NeverFastForward(theirs) ==
    IF HeadUnborn THEN {"unborn"}
    ELSE IF theirs \in ReachableFrom(commits, HeadCommit) THEN {"up_to_date"}
    ELSE {"normal"}

\* merge.rs:22-23: repo.merge_analysis against HEAD.
MergeAnalysis(theirs) ==
    IF HeadUnborn THEN {"unborn", "fast_forward"}
    ELSE IF theirs \in ReachableFrom(commits, HeadCommit) THEN {"up_to_date"}
    ELSE IF HeadCommit \in ReachableFrom(commits, theirs) THEN {"fast_forward", "normal"}
    ELSE {"normal"}

\* merge.rs:42-46: the merge base repo.merge finds: a common ancestor that
\* is no ancestor of another one.
MergeBase(a, b) ==
    LET common == ReachableFrom(commits, a) \cap ReachableFrom(commits, b)
        best == {c \in common : \A d \in common \ {c} : c \notin ReachableFrom(commits, d)}
    IN IF common = {} THEN NoCommit ELSE SetMax(best)

\* merge.rs:42-46: the three-way merge of one path: "keep" ours, "take"
\* theirs, or "conflict" when both sides changed it differently.
MergeKind(base, ours, theirs) ==
    IF theirs = base \/ ours = theirs THEN "keep"
    ELSE IF ours = base THEN "take"
    ELSE "conflict"

\* merge.rs:42-46, cherrypick.rs:24: the effect on the index and the working
\* directory of merging the changes from tree A to tree T into HEAD.  It is
\* refused, and writes nothing, when a path it changes has a staged or a
\* local change.
ThreeWayEffect(A, T) ==
    LET kind == [p \in Paths |-> MergeKind(A[p], HeadTree[p], T[p])]
        target == [p \in Paths |->
                     CASE kind[p] = "take" -> T[p]
                       [] kind[p] = "conflict" -> ConflictFile(HeadTree[p], T[p])
                       [] OTHER -> wt[p]]
        blocked == \E p \in Paths :
                     /\ kind[p] # "keep"
                     /\ \/ p \in conflicted
                        \/ index[p] # HeadTree[p]
                        \/ wt[p] # HeadTree[p] /\ wt[p] # target[p]
    IN IF blocked
       THEN [ok |-> FALSE, wt |-> wt, index |-> index, conflicted |-> conflicted]
       ELSE [ok |-> TRUE,
             wt |-> target,
             index |-> [p \in Paths |->
                          CASE kind[p] = "take" -> T[p]
                            [] OTHER -> index[p]],
             conflicted |-> conflicted \cup {p \in Paths : kind[p] = "conflict"}]

\* merge.rs:42-46: repo.merge takes the merge base as the common tree.
MergeEffect(theirs) ==
    LET b == MergeBase(HeadCommit, theirs)
    IN ThreeWayEffect(IF b = NoCommit THEN EmptyTree ELSE commits[b].tree,
                      commits[theirs].tree)

\* merge.rs:6-91
MergeBranch(source_branch, no_fast_forward) ==
    LET theirs == refs[source_branch]
        analysis == MergeAnalysis(theirs)
        e == MergeEffect(theirs)
        message == <<"Merge", "branch", source_branch>>
    IN /\ IF ~BranchExists(source_branch)
          THEN /\ result' = Err("merge_branch", <<"Failed", "to", "find", "source", "branch">>)
               /\ UNCHANGED <<wt, index, commits, refs, conflicted, merge_head, only_commits>>
          ELSE IF "fast_forward" \in analysis /\ ~no_fast_forward
          THEN IF HeadUnborn
               THEN /\ result' = Err("merge_branch", <<"Failed", "to", "get", "HEAD">>)
                    /\ UNCHANGED <<wt, index, commits, refs, conflicted, merge_head,
                                   only_commits>>
               ELSE \* set_target, then checkout_head(None): the safe checkout of
                    \* the tree HEAD now names writes no file
                    /\ refs' = [refs EXCEPT ![head] = theirs]
                    /\ only_commits' = FALSE
                    /\ result' = OkMsg("merge_branch", <<"Fast-forward", "merge", "successful">>)
                    /\ UNCHANGED <<wt, index, commits, conflicted, merge_head>>
          ELSE IF "normal" \in analysis
          THEN IF ~e.ok
               THEN /\ result' = Err("merge_branch", <<"Failed", "to", "merge">>)
                    /\ UNCHANGED <<wt, index, commits, refs, conflicted, merge_head,
                                   only_commits>>
               ELSE /\ wt' = e.wt
                    /\ index' = e.index
                    /\ conflicted' = e.conflicted
                    /\ only_commits' = FALSE
                    /\ IF e.conflicted # {}
                       THEN /\ merge_head' = theirs
                            /\ result' = OkMsg("merge_branch",
                                               <<"Merge", "completed", "with", "conflicts">>)
                            /\ UNCHANGED <<commits, refs>>
                       ELSE IF ~sig_configured
                       THEN /\ merge_head' = theirs
                            /\ result' = Err("merge_branch",
                                             <<"Failed", "to", "get", "signature">>)
                            /\ UNCHANGED <<commits, refs>>
                       ELSE /\ commits' = Append(commits,
                                             NewCommit(<<HeadCommit, theirs>>, e.index, message))
                            /\ refs' = [refs EXCEPT ![head] = Len(commits) + 1]
                            /\ merge_head' = NoCommit
                            /\ result' = OkMsg("merge_branch", <<"Merge", "successful">>)
          ELSE IF "up_to_date" \in analysis
          THEN /\ result' = OkMsg("merge_branch", <<"Already", "up-to-date">>)
               /\ UNCHANGED <<wt, index, commits, refs, conflicted, merge_head, only_commits>>
          ELSE /\ result' = Err("merge_branch", <<"Cannot", "merge">>)
               /\ UNCHANGED <<wt, index, commits, refs, conflicted, merge_head, only_commits>>
       /\ UNCHANGED <<head, stashes, created, saved, stash_removed>>

InitMerge ==
    /\ DiffIdle
    /\ HandlersIdle
    /\ RepoFresh
    /\ ExtFresh

NextMerge ==
    \/ \E p \in Paths, c \in 0..NumContents :
          WriteFile(p, c) /\ UNCHANGED <<extVars, diffVars, handlerVars, merge_head>>
    \/ \E p \in Paths : StageFile(p) /\ UNCHANGED <<extVars, diffVars, handlerVars, merge_head>>
    \/ /\ Len(commits) < MaxMergeCommits
       /\ CreateCommit(<<"a">>)
       /\ UNCHANGED <<extVars, diffVars, handlerVars, merge_head>>
    \/ \E b \in Branches : CreateBranch(b) /\ UNCHANGED <<extVars, diffVars, handlerVars>>
    \/ \E b \in Branches : SwitchBranch(b) /\ UNCHANGED <<extVars, diffVars, handlerVars>>
    \/ \E b \in Branches, nff \in BOOLEAN :
          /\ MergeBranch(b, nff)
          /\ Len(commits') <= MaxMergeCommits
          /\ UNCHANGED <<extVars, diffVars, handlerVars>>
    \/ Configure /\ UNCHANGED <<extVars, diffVars, repoVars>>

SpecMerge == InitMerge /\ [][NextMerge]_vars

\* ---------------------------------------------------------------------------
\* Claims about merge_branch
\* ---------------------------------------------------------------------------

\* The source branch has the current branch's commit as a proper ancestor.
StrictlyAhead(source_branch) ==
    /\ BranchExists(source_branch)
    /\ ~HeadUnborn
    /\ refs[source_branch] # HeadCommit
    /\ HeadCommit \in ReachableFrom(commits, refs[source_branch])

\* C10: when the source branch is strictly ahead of the current branch and
\* no_fast_forward is false, merge_branch moves the current branch to the
\* source branch's commit, creates no commit, and returns Ok with a message
\* that contains "Fast-forward".
C10_FastForwardMerge ==
    [][\A b \in Branches :
          (StrictlyAhead(b) /\ MergeBranch(b, FALSE)) =>
              /\ head' = head
              /\ refs'[head] = refs[b]
              /\ refs'[b] = refs[b]
              /\ commits' = commits
              /\ result'.ok
              /\ "Fast-forward" \in RangeOf(result'.msg)
      ]_vars

\* main was fast-forwarded to the commit made on feature.
C10_Witness ==
    /\ result.op = "merge_branch"
    /\ result.ok
    /\ "Fast-forward" \in RangeOf(result.msg)
    /\ head = "main"
    /\ refs["main"] = refs["feature"]
    /\ Len(commits) = 2
    /\ commits[2].parents = <<1>>


\* merge.rs:121-145: the paths of the index conflicts that have an "our"
\* side; the others are skipped.
get_merge_conflicts == {p \in conflicted : index[p] # Absent}

\* The merges of histories in which files are deleted as well: stage_all
\* stages the deletions.
NextConflict ==
    \/ \E p \in Paths, c \in 0..NumContents :
          WriteFile(p, c) /\ UNCHANGED <<extVars, diffVars, handlerVars, merge_head>>
    \/ StageAll /\ UNCHANGED <<extVars, diffVars, handlerVars, merge_head>>
    \/ /\ Len(commits) < MaxMergeCommits
       /\ CreateCommit(<<"a">>)
       /\ UNCHANGED <<extVars, diffVars, handlerVars, merge_head>>
    \/ \E b \in Branches : CreateBranch(b) /\ UNCHANGED <<extVars, diffVars, handlerVars>>
    \/ \E b \in Branches : SwitchBranch(b) /\ UNCHANGED <<extVars, diffVars, handlerVars>>
    \/ \E b \in Branches, nff \in BOOLEAN :
          /\ MergeBranch(b, nff)
          /\ Len(commits') <= MaxMergeCommits
          /\ UNCHANGED <<extVars, diffVars, handlerVars>>

SpecConflict == InitMerge /\ [][NextConflict]_vars

\* The merge_branch step found conflicts: paths are conflicted that were not.
MergeConflicts(b, nff) == MergeBranch(b, nff) /\ conflicted' \ conflicted # {}

\* C11: when merging the source branch produces conflicts, merge_branch
\* returns Ok with a message containing "conflicts", creates no commit and
\* leaves every branch where it was, and get_merge_conflicts then returns a
\* non-empty list that contains every path that conflicted.
C11_ConflictsReported ==
    [][\A b \in Branches, nff \in BOOLEAN :
          MergeConflicts(b, nff) =>
              /\ result'.ok
              /\ "conflicts" \in RangeOf(result'.msg)
              /\ commits' = commits
              /\ refs' = refs
              /\ get_merge_conflicts' # {}
              /\ conflicted' \subseteq get_merge_conflicts'
      ]_vars


\* ---------------------------------------------------------------------------
\* commands/branch.rs: delete_branch, list_branches, get_current_branch
\* ---------------------------------------------------------------------------

\* The most commits the branch scenarios make.
MaxBranchCommits == 2

DeleteBranch_NoCurrentCheck(b) ==
    /\ IF HeadUnborn \/ ~BranchExists(b)
       THEN /\ result' = Err("delete_branch", <<"Branch", b, "not", "found">>)
            /\ UNCHANGED refs
       ELSE /\ refs' = [refs EXCEPT ![b] = NoCommit]
            /\ result' = OkMsg("delete_branch", <<"Branch", b, "deleted", "successfully">>)
    /\ UNCHANGED <<wt, index, commits, head, stashes, conflicted, merge_head, created,
                   only_commits, saved, stash_removed>>

\* branch.rs:129-149
DeleteBranch(b) ==
    /\ IF HeadUnborn
       THEN /\ result' = Err("delete_branch", <<"reference", "not", "found">>)
            /\ UNCHANGED refs
       ELSE IF head = b
       THEN /\ result' = Err("delete_branch", <<"Cannot delete the current branch">>)
            /\ UNCHANGED refs
       ELSE IF ~BranchExists(b)
       THEN /\ result' = Err("delete_branch", <<"Branch", b, "not", "found">>)
            /\ UNCHANGED refs
       ELSE /\ refs' = [refs EXCEPT ![b] = NoCommit]
            /\ result' = OkMsg("delete_branch", <<"Branch", b, "deleted", "successfully">>)
    /\ UNCHANGED <<wt, index, commits, head, stashes, conflicted, merge_head, created,
                   only_commits, saved, stash_removed>>

\* branch.rs:28-30: repo.branches(Some(Local)) yields the branches in the
\* order of their names.
BranchOrder == <<"feature", "main">>

SortCurrentFirst_Unsorted(l) == l

\* branch.rs:62-63: the stable sort_by on is_current, true first.
SortCurrentFirst(l) ==
    SelectSeq(l, LAMBDA e : e.is_current) \o SelectSeq(l, LAMBDA e : ~e.is_current)

\* branch.rs:24-66
list_branches ==
    LET iter == SelectSeq(BranchOrder, BranchExists)
    IN SortCurrentFirst([i \in 1..Len(iter) |->
                            [name |-> iter[i],
                             is_current |-> iter[i] = head,
                             is_remote |-> FALSE,
                             commit |-> refs[iter[i]]]])

get_current_branch_Main ==
    IF HeadUnborn THEN Err("get_current_branch", <<"reference", "not", "found">>)
    ELSE Ok("get_current_branch", "main")

\* branch.rs:70-84: repo.head() fails while HEAD is unborn; HEAD is never
\* detached by a handler.
get_current_branch ==
    IF HeadUnborn THEN Err("get_current_branch", <<"reference", "not", "found">>)
    ELSE Ok("get_current_branch", head)

NextBranch ==
    \/ \E p \in Paths, c \in 0..NumContents :
          WriteFile(p, c) /\ UNCHANGED <<extVars, diffVars, handlerVars, merge_head>>
    \/ \E p \in Paths : StageFile(p) /\ UNCHANGED <<extVars, diffVars, handlerVars, merge_head>>
    \/ \E m \in Messages :
          /\ Len(commits) < MaxBranchCommits
          /\ CreateCommit(m)
          /\ UNCHANGED <<extVars, diffVars, handlerVars, merge_head>>
    \/ \E b \in Branches : CreateBranch(b) /\ UNCHANGED <<extVars, diffVars, handlerVars>>
    \/ \E b \in Branches : SwitchBranch(b) /\ UNCHANGED <<extVars, diffVars, handlerVars>>
    \/ \E b \in Branches : DeleteBranch(b) /\ UNCHANGED <<extVars, diffVars, handlerVars>>

SpecBranch == InitMerge /\ [][NextBranch]_vars

\* ---------------------------------------------------------------------------
\* Claims about the branch handlers
\* ---------------------------------------------------------------------------

\* C12: list_branches returns every existing local branch exactly once and
\* no branch that does not exist (a deleted one), marks as is_current
\* exactly the entry of the branch HEAD points to, and has that branch first.
C12_BranchList ==
    LET l == list_branches
    IN /\ \A b \in Branches :
             BranchExists(b) => Cardinality({i \in 1..Len(l) : l[i].name = b}) = 1
       /\ \A i \in 1..Len(l) : BranchExists(l[i].name)
       /\ \A i \in 1..Len(l) : l[i].is_current <=> l[i].name = head
       /\ BranchExists(head) => l[1].name = head

\* feature was created while main, the later name, is current: the list is
\* main, feature.
C12_Witness ==
    /\ result.op = "create_branch"
    /\ result.ok
    /\ head = "main"
    /\ Len(list_branches) = 2
    /\ list_branches[1].name = "main"
    /\ list_branches[2].name = "feature"

SwitchSucceeds == \E b \in Branches : SwitchBranch(b) /\ result'.ok

CannotDeleteCurrent == <<"Cannot delete the current branch">>

\* C17: delete_branch(n) returns Err("Cannot delete the current branch") and
\* deletes nothing whenever n is the branch HEAD points to, and no step
\* removes the branch HEAD points to.
C17_DeleteCurrentRefused ==
    [][/\ \A b \in Branches :
             (b = head /\ DeleteBranch(b)) =>
                 /\ ~result'.ok
                 /\ result'.msg = CannotDeleteCurrent
                 /\ refs' = refs
       /\ BranchExists(head) => refs'[head'] # NoCommit
      ]_vars

\* C17, amended: delete_branch(n) returns Err and deletes nothing whenever n
\* is the branch HEAD points to; the error is "Cannot delete the current
\* branch" when HEAD has a commit and the library's error for the missing
\* reference when it has none; no step removes the branch HEAD points to.
C17_DeleteCurrentRefused_Amended ==
    [][/\ \A b \in Branches :
             (b = head /\ DeleteBranch(b)) =>
                 /\ ~result'.ok
                 /\ (result'.msg = CannotDeleteCurrent) <=> ~HeadUnborn
                 /\ refs' = refs
       /\ BranchExists(head) => refs'[head'] # NoCommit
      ]_vars

\* delete_branch of the current branch was refused while another branch
\* exists.
C17_Witness ==
    /\ result.op = "delete_branch"
    /\ ~result.ok
    /\ result.msg = CannotDeleteCurrent
    /\ \A b \in Branches : BranchExists(b)

\* ---------------------------------------------------------------------------
\* Claims about merge commits
\* ---------------------------------------------------------------------------

MaxPullCommits == 3

\* The handler state that the remote handlers leave alone.
nonSyncVars == <<h_pc, h_result, sig_configured, rb_active, rb_total, rb_current,
                 conflicts, walk_times, limit, hist_idx, commits_out>>

\* remote_tests.rs:107-109: somebody else pushes a commit of theirs onto a
\* branch of the remote.  Its object reaches this repository with the next
\* fetch; until then no local reference names it.
RemoteCommit(b, tree) ==
    /\ origin[b] # NoCommit
    /\ commits' = Append(commits, NewCommit(<<origin[b]>>, tree, <<"a">>))
    /\ origin' = [origin EXCEPT ![b] = Len(commits) + 1]
    /\ UNCHANGED <<wt, index, refs, head, stashes, conflicted, merge_head, result, created,
                   only_commits, saved, stash_removed, tracking, imageVars, storeVars, cherryVars>>

\* remote.rs:226-277.  remote.push refuses a refspec whose source does not
\* exist and, without the leading '+', a target that is no ancestor of the
\* source; a successful push also updates the remote-tracking branch.
PushChanges(b, force) ==
    /\ IF \/ ~BranchExists(b)
          \/ /\ ~force
             /\ origin[b] # NoCommit
             /\ origin[b] \notin ReachableFrom(commits, refs[b])
       THEN /\ sync_phase' = "pushing"
            /\ result' = Err("push_changes", <<"push", "rejected">>)
            /\ UNCHANGED <<origin, tracking>>
       ELSE /\ origin' = [origin EXCEPT ![b] = refs[b]]
            /\ tracking' = [tracking EXCEPT ![b] = refs[b]]
            /\ sync_phase' = "idle"
            /\ result' = OkMsg("push_changes", <<"Pushed", "to", b, "successfully">>)
    /\ UNCHANGED <<wt, index, commits, refs, head, stashes, conflicted, merge_head, created,
                   only_commits, saved, stash_removed, imageVars, storeVars, cherryVars>>

CannotPull == <<"Cannot", "pull:", "merge", "or", "rebase", "required">>

\* remote.rs:150-223.  fetch_ok is whether fetch_remote (find_remote and the
\* transfer) succeeds; the fetch sets every remote-tracking branch to the
\* remote's branch.  The analysis is made against HEAD, the reference that
\* is moved is the one of branch_name.
PullChanges(branch_name, fetch_ok) ==
    LET remote_commit == origin[branch_name]
        analysis == MergeAnalysis(remote_commit)
        tree == commits[remote_commit].tree
        unchanged == UNCHANGED <<wt, index, refs, head, conflicted, only_commits>>
    IN /\ IF ~fetch_ok
          THEN /\ sync_phase' = "fetching"
               /\ result' = Err("pull_changes", <<"fetch", "failed">>)
               /\ UNCHANGED tracking
               /\ unchanged
          ELSE /\ tracking' = origin
               /\ sync_phase' = "idle"
               /\ IF remote_commit = NoCommit
                  THEN /\ result' = Err("pull_changes", <<"Remote", "branch", "not", "found">>)
                       /\ unchanged
                  ELSE IF HeadUnborn
                  THEN /\ result' = Err("pull_changes", <<"reference", "not", "found">>)
                       /\ unchanged
                  ELSE IF "up_to_date" \in analysis
                  THEN /\ result' = OkMsg("pull_changes", <<"Already", "up-to-date">>)
                       /\ unchanged
                  ELSE IF "fast_forward" \in analysis
                  THEN IF ~BranchExists(branch_name)
                       THEN /\ result' = Err("pull_changes", <<"reference", "not", "found">>)
                            /\ unchanged
                       ELSE /\ refs' = [refs EXCEPT ![branch_name] = remote_commit]
                            /\ head' = branch_name
                            /\ wt' = ForceCheckout(tree, wt)
                            /\ index' = ForceCheckout(tree, index)
                            /\ conflicted' = {p \in conflicted : tree[p] = Absent}
                            /\ only_commits' = FALSE
                            /\ result' = OkMsg("pull_changes",
                                               <<"Pulled", "successfully", "(fast-forward)">>)
                  ELSE /\ result' = Err("pull_changes", CannotPull)
                       /\ unchanged
       /\ UNCHANGED <<commits, stashes, merge_head, created, saved, stash_removed, origin,
                      imageVars, storeVars, cherryVars>>

NextPull ==
    \/ \E p \in Paths :
          WriteFile(p, 1) /\ UNCHANGED <<extVars, diffVars, handlerVars, merge_head>>
    \/ \E p \in Paths : StageFile(p) /\ UNCHANGED <<extVars, diffVars, handlerVars, merge_head>>
    \/ /\ Len(commits) < MaxPullCommits
       /\ CreateCommit(<<"a">>)
       /\ UNCHANGED <<extVars, diffVars, handlerVars, merge_head>>
    \/ \E b \in Branches : CreateBranch(b) /\ UNCHANGED <<extVars, diffVars, handlerVars>>
    \/ \E b \in Branches : SwitchBranch(b) /\ UNCHANGED <<extVars, diffVars, handlerVars>>
    \/ \E b \in Branches :
          /\ Len(commits) < MaxPullCommits
          /\ RemoteCommit(b, [p \in Paths |-> NumContents])
          /\ UNCHANGED <<diffVars, handlerVars>>
    \/ \E b \in Branches, force \in BOOLEAN :
          PushChanges(b, force) /\ UNCHANGED <<diffVars, nonSyncVars>>
    \/ \E b \in Branches, fetch_ok \in BOOLEAN :
          PullChanges(b, fetch_ok) /\ UNCHANGED <<diffVars, nonSyncVars>>

SpecPull == InitMerge /\ [][NextPull]_vars

\* ---------------------------------------------------------------------------
\* Claims about pull_changes
\* ---------------------------------------------------------------------------

\* The local state a pull may change: the branches, HEAD, the index and the
\* working directory.
localState == <<refs, head, index, wt>>

\* C14: pull_changes only ever fast-forwards.  For every call whose fetch
\* succeeded, with the remote branch present and HEAD born: when the remote
\* commit is contained in HEAD it returns Ok("Already up-to-date") and the
\* local state is unchanged; when the analysis is fast-forward and the call
\* succeeds, the local branch is at the remote commit; otherwise it returns
\* Err("Cannot pull: merge or rebase required") and the local state is
\* unchanged; and in every case each local branch is afterwards at its
\* previous commit or at a descendant of it.
C14_PullOnlyFastForwards ==
    [][\A b \in Branches :
          (PullChanges(b, TRUE) /\ origin[b] # NoCommit /\ ~HeadUnborn) =>
              LET theirs == origin[b]
                  contained == theirs \in ReachableFrom(commits, HeadCommit)
                  ahead == ~contained /\ HeadCommit \in ReachableFrom(commits, theirs)
              IN /\ contained =>
                       /\ result' = OkMsg("pull_changes", <<"Already", "up-to-date">>)
                       /\ UNCHANGED localState
                 /\ (ahead /\ result'.ok) => refs'[b] = theirs
                 /\ (~contained /\ ~ahead) =>
                       /\ result' = Err("pull_changes", CannotPull)
                       /\ UNCHANGED localState
                 /\ \A x \in Branches :
                       BranchExists(x) => refs[x] \in ReachableFrom(commits', refs'[x])
      ]_vars

\* ---------------------------------------------------------------------------
\* commands/diff.rs: parse_image_dimensions
\* ---------------------------------------------------------------------------

\* data[i], for the 0-based index of the code; which indices a parser reads
\* is recorded beside its result.
At(data, i) == IF i < Len(data) THEN data[i + 1] ELSE 0

\* &data[a..b]
Slice(data, a, b) == SubSeq(data, a + 1, b)

\* u16::from_be_bytes, u16::from_le_bytes, u32::from_be_bytes, u32::from_le_bytes
U16Be(a, b) == a * 256 + b

U16Le(a, b) == b * 256 + a

U32Be(a, b, c, d) == ((a * 256 + b) * 256 + c) * 256 + d

U32Le(a, b, c, d) == ((d * 256 + c) * 256 + b) * 256 + a

\* b"\x89PNG\r\n\x1a\n"
PngSignature == <<137, 80, 78, 71, 13, 10, 26, 10>>

\* b"GIF87a", b"GIF89a"
Gif87a == <<71, 73, 70, 56, 55, 97>>

Gif89a == <<71, 73, 70, 56, 57, 97>>

\* b"RIFF", b"WEBP", b"VP8 ", b"VP8L"
Riff == <<82, 73, 70, 70>>

Webp == <<87, 69, 66, 80>>

Vp8 == <<86, 80, 56, 32>>

Vp8L == <<86, 80, 56, 76>>

\* (0, 0), with the indices read on the way.
NoDims(reads) == [dims |-> <<0, 0>>, reads |-> reads]

\* diff.rs:423-433
parse_png_dimensions(data) ==
    IF Len(data) >= 24
    THEN IF Slice(data, 0, 8) = PngSignature
         THEN [dims |-> <<U32Be(At(data, 16), At(data, 17), At(data, 18), At(data, 19)),
                          U32Be(At(data, 20), At(data, 21), At(data, 22), At(data, 23))>>,
               reads |-> 0..7 \cup 16..23]
         ELSE NoDims(0..7)
    ELSE NoDims({})

RECURSIVE JpegScan(_, _, _)
\* diff.rs:441-464: the marker loop, from index i.
JpegScan(data, i, reads) ==
    IF ~(i + 1 < Len(data)) THEN NoDims(reads)
    ELSE IF At(data, i) # 255 THEN JpegScan(data, i + 1, reads \cup {i})
    ELSE LET marker == At(data, i + 1)
             seen == reads \cup {i, i + 1}
         IN IF (marker = 192 \/ marker = 194) /\ i + 9 < Len(data)
            THEN [dims |-> <<U16Be(At(data, i + 7), At(data, i + 8)),
                             U16Be(At(data, i + 5), At(data, i + 6))>>,
                  reads |-> seen \cup (i + 5)..(i + 8)]
            ELSE IF i + 3 < Len(data)
            THEN JpegScan(data, i + 2 + U16Be(At(data, i + 2), At(data, i + 3)),
                          seen \cup {i + 2, i + 3})
            ELSE NoDims(seen)

\* diff.rs:436-465
parse_jpeg_dimensions(data) ==
    IF Len(data) < 4 THEN NoDims({})
    ELSE IF At(data, 0) # 255 THEN NoDims({0})
    ELSE IF At(data, 1) # 216 THEN NoDims({0, 1})
    ELSE JpegScan(data, 2, {0, 1})

parse_gif_dimensions_BigEndian(data) ==
    IF Len(data) >= 10 /\ (StartsWith(data, Gif87a) \/ StartsWith(data, Gif89a))
    THEN [dims |-> <<U16Be(At(data, 6), At(data, 7)), U16Be(At(data, 8), At(data, 9))>>,
          reads |-> 0..9]
    ELSE NoDims({})

\* diff.rs:468-475
parse_gif_dimensions(data) ==
    IF Len(data) >= 10 /\ (StartsWith(data, Gif87a) \/ StartsWith(data, Gif89a))
    THEN [dims |-> <<U16Le(At(data, 6), At(data, 7)), U16Le(At(data, 8), At(data, 9))>>,
          reads |-> 0..9]
    ELSE NoDims({})

\* diff.rs:478-498; & 0x3FFF is % 16384 and >> 14 is \div 16384.
parse_webp_dimensions(data) ==
    IF Len(data) >= 30 /\ Slice(data, 0, 4) = Riff /\ Slice(data, 8, 12) = Webp
    THEN IF /\ Slice(data, 12, 16) = Vp8
            /\ Len(data) >= 30
            /\ At(data, 23) = 157 /\ At(data, 24) = 1 /\ At(data, 25) = 42
         THEN [dims |-> <<U16Le(At(data, 26), At(data, 27)) % 16384,
                          U16Le(At(data, 28), At(data, 29)) % 16384>>,
               reads |-> 0..3 \cup 8..15 \cup 23..29]
         ELSE IF Slice(data, 12, 16) = Vp8L /\ Len(data) >= 25
         THEN LET bits == U32Le(At(data, 21), At(data, 22), At(data, 23), At(data, 24))
              IN [dims |-> <<(bits % 16384) + 1, ((bits \div 16384) % 16384) + 1>>,
                  reads |-> 0..3 \cup 8..15 \cup 21..24]
         ELSE NoDims(0..3 \cup 8..15 \cup 23..25)
    ELSE NoDims(IF Len(data) >= 30 THEN 0..3 \cup 8..11 ELSE {})

\* diff.rs:501-509
parse_image_dimensions(data, format) ==
    CASE format = "PNG" -> parse_png_dimensions(data)
      [] format = "JPEG" -> parse_jpeg_dimensions(data)
      [] format = "GIF" -> parse_gif_dimensions(data)
      [] format = "WebP" -> parse_webp_dimensions(data)
      [] OTHER -> NoDims({})

\* The call: a read at or beyond data.len() is a panic, anything else the
\* pair returned.
ParseImage ==
    /\ img_result = None
    /\ LET r == parse_image_dimensions(img_data, img_format)
       IN img_result' = Some(IF \A i \in r.reads : i < Len(img_data)
                             THEN [kind |-> "Ok", dims |-> r.dims]
                             ELSE [kind |-> "panic", dims |-> <<0, 0>>])
    /\ UNCHANGED <<img_data, img_format, img_header, remoteVars, storeVars, cherryVars>>

\* --- the inputs ------------------------------------------------------------

\* The bytes of a stored dimension are 0..MaxDimByte.
MaxDimByte == 1

DimValues == {hi * 256 + lo : hi \in 0..MaxDimByte, lo \in 0..MaxDimByte} \ {0}

Be16(n) == <<n \div 256, n % 256>>

Le16(n) == <<n % 256, n \div 256>>

Le24(n) == <<n % 256, (n \div 256) % 256, n \div 65536>>

Be32(n) == <<0, 0>> \o Be16(n)

Le32(n) == Le24(n % 16777216) \o <<n \div 16777216>>

Header(kind, w, h, frame_at, marker) ==
    [kind |-> kind, w |-> w, h |-> h, frame_at |-> frame_at, marker |-> marker]

\* A PNG file: signature (intact or with a wrong first byte), IHDR chunk.
PngFiles ==
    {[bytes |-> (IF sig_ok THEN PngSignature ELSE <<0>> \o Tail(PngSignature))
                 \o <<0, 0, 0, 13, 73, 72, 68, 82>> \o Be32(w) \o Be32(h) \o <<8, 6>>,
      header |-> Header("PNG", w, h, 0, 0)] :
        sig_ok \in BOOLEAN, w \in DimValues, h \in DimValues}

\* A GIF file: "GIF8", the version digit ('7', '9', or the unknown '8'), "a",
\* the logical screen size.
GifFiles ==
    {[bytes |-> <<71, 73, 70, 56, ver, 97>> \o Le16(w) \o Le16(h) \o <<0>>,
      header |-> Header("GIF", w, h, 0, 0)] :
        ver \in {55, 56, 57}, w \in DimValues, h \in DimValues}

\* A JPEG file: SOI, an optional APP0 segment, one frame segment (SOF0, SOF1
\* or SOF2) holding the size, EOI.  frame_at is the index of the frame marker.
JpegFiles ==
    {[bytes |-> <<255, 216>> \o (IF app0 THEN <<255, 224, 0, 4, 0, 0>> ELSE <<>>)
                 \o <<255, marker, 0, 8, 8>> \o Be16(h) \o Be16(w) \o <<1>> \o <<255, 217>>,
      header |-> Header("JPEG", w, h, IF app0 THEN 8 ELSE 2, marker)] :
        app0 \in BOOLEAN, marker \in {192, 193, 194}, w \in DimValues, h \in DimValues}

\* A WebP file: RIFF header, then a VP8 chunk (with the start code intact or
\* not), a VP8L chunk or a VP8X chunk.  marker is the fourth byte of the
\* chunk name, frame_at 1 when a VP8 start code is intact.
WebpFiles ==
    {[bytes |-> Riff \o <<0, 0, 0, 0>> \o Webp \o Vp8 \o <<0, 0, 0, 0, 0, 0, 0>>
                 \o <<(IF code_ok THEN 157 ELSE 0), 1, 42>> \o Le16(w) \o Le16(h) \o <<0>>,
      header |-> Header("WebP", w, h, IF code_ok THEN 1 ELSE 0, 32)] :
        code_ok \in BOOLEAN, w \in DimValues, h \in DimValues}
    \cup
    {[bytes |-> Riff \o <<0, 0, 0, 0>> \o Webp \o Vp8L \o <<0, 0, 0, 0, 47>>
                 \o Le32((w - 1) + (h - 1) * 16384) \o <<0, 0, 0, 0, 0, 0>>,
      header |-> Header("WebP", w, h, 0, 76)] :
        w \in DimValues, h \in DimValues}
    \cup
    {[bytes |-> Riff \o <<0, 0, 0, 0>> \o Webp \o <<86, 80, 56, 88>> \o <<0, 0, 0, 0>>
                 \o <<0, 0, 0, 0>> \o Le24(w - 1) \o Le24(h - 1) \o <<0>>,
      header |-> Header("WebP", w, h, 0, 88)] :
        w \in DimValues, h \in DimValues}

ImageFiles == PngFiles \cup GifFiles \cup JpegFiles \cup WebpFiles

\* The format names get_format_name gives, and one it never gives.
Formats == {"PNG", "JPEG", "GIF", "WebP", "SVG", "png"}

\* The input is a file of ImageFiles cut after any number of bytes, under
\* any format name.
InitImage ==
    /\ DiffIdle
    /\ HandlersIdle
    /\ RepoFresh
    /\ RemoteFresh
    /\ StoreEmpty
    /\ NoCherryPick
    /\ \E f \in ImageFiles :
          /\ \E n \in 0..Len(f.bytes) : img_data = SubSeq(f.bytes, 1, n)
          /\ img_header = f.header
    /\ img_format \in Formats
    /\ img_result = None

NextImage == ParseImage /\ UNCHANGED <<diffVars, handlerVars, repoVars>>

SpecImage == InitImage /\ [][NextImage]_vars

\* ---------------------------------------------------------------------------
\* Claims about parse_image_dimensions
\* ---------------------------------------------------------------------------

ImageParsed == img_result # None

ImageDims == img_result[1].dims

SupportedFormats == {"PNG", "JPEG", "GIF", "WebP"}

\* The length of a format's header: through the IHDR size of a PNG, the
\* logical screen size of a GIF, the first chunk's size fields of a WebP,
\* and the frame segment's size fields of a JPEG file (four bytes when the
\* bytes come from no JPEG file).
HeaderLen(format) ==
    CASE format = "PNG" -> 24
      [] format = "JPEG" -> IF img_header.kind = "JPEG" THEN img_header.frame_at + 10 ELSE 4
      [] format = "GIF" -> 10
      [] format = "WebP" -> 30

\* PNG 8-byte signature, JPEG FF D8, GIF87a/GIF89a, RIFF....WEBP
HasSignature(data, format) ==
    CASE format = "PNG" -> StartsWith(data, PngSignature)
      [] format = "JPEG" -> StartsWith(data, <<255, 216>>)
      [] format = "GIF" -> StartsWith(data, Gif87a) \/ StartsWith(data, Gif89a)
      [] format = "WebP" -> StartsWith(data, Riff) /\ StartsWith(Drop(data, 8), Webp)

NotDeterminable ==
    \/ img_format \notin SupportedFormats
    \/ Len(img_data) < HeaderLen(img_format)
    \/ ~HasSignature(img_data, img_format)

\* C15: parse_image_dimensions never reads at or beyond data.len(); it
\* returns (0, 0) for a format other than PNG, JPEG, GIF and WebP and for
\* bytes shorter than the format's header or without its signature, and
\* otherwise the width and height stored in the header.
C15_ImageDimensions ==
    ImageParsed =>
        /\ img_result[1].kind = "Ok"
        /\ IF NotDeterminable
           THEN ImageDims = <<0, 0>>
           ELSE ImageDims = <<img_header.w, img_header.h>>

\* The parser finds a size in a file that has the signature and the
\* header: in a JPEG, when the frame segment is SOF0 or SOF2; in a WebP, in
\* a VP8 chunk with its start code or a VP8L chunk.
SizeFound ==
    CASE img_format = "JPEG" -> img_header.marker \in {192, 194}
      [] img_format = "WebP" ->
            \/ img_header.marker = 32 /\ img_header.frame_at = 1
            \/ img_header.marker = 76
      [] OTHER -> TRUE

\* C15, amended: as C15, but a file with the signature whose size the parser
\* does not find also gives (0, 0).
C15_ImageDimensions_Amended ==
    ImageParsed =>
        /\ img_result[1].kind = "Ok"
        /\ IF NotDeterminable \/ ~SizeFound
           THEN ImageDims = <<0, 0>>
           ELSE ImageDims = <<img_header.w, img_header.h>>

\* A JPEG whose SOF2 segment follows an APP0 segment was parsed, and the
\* size 257 x 256 stored in it came out.
C15_Witness ==
    /\ ImageParsed
    /\ img_format = "JPEG"
    /\ img_header.marker = 194
    /\ img_header.frame_at = 8
    /\ img_result[1].kind = "Ok"
    /\ ImageDims = <<257, 256>>

\* ---------------------------------------------------------------------------
\* commands/repos.rs: add_recent_repo
\* ---------------------------------------------------------------------------

\* repos.rs:79-81: the most entries kept.
MaxRecent == 20

\* The repository paths the calls name.
MaxRepoPaths == 21

RepoPaths == 1..MaxRepoPaths

\* The clock readings of the model.
MaxClock == 1

\* models: RecentRepo; its name is the last component of its path.
RecentRepo(path, now) == [path |-> path, last_opened |-> now]

RECURSIVE InsertByLastOpened_OldestFirst(_, _)
InsertByLastOpened_OldestFirst(sorted, r) ==
    IF sorted = <<>> THEN <<r>>
    ELSE IF r.last_opened < Head(sorted).last_opened THEN <<r>> \o sorted
    ELSE <<Head(sorted)>> \o InsertByLastOpened_OldestFirst(Tail(sorted), r)

\* repos.rs:80: sort_by(|a, b| b.last_opened.cmp(&a.last_opened)) is a
\* stable sort, newest first: r goes behind every entry that is not older,
\* and those are the first entries of a sorted list.
InsertByLastOpened(sorted, r) ==
    LET ahead == Len(SelectSeq(sorted, LAMBDA e : e.last_opened >= r.last_opened))
    IN SubSeq(sorted, 1, ahead) \o <<r>> \o SubSeq(sorted, ahead + 1, Len(sorted))

RECURSIVE SortByLastOpened(_)
SortByLastOpened(repos) ==
    IF repos = <<>> THEN <<>>
    ELSE InsertByLastOpened(SortByLastOpened(SubSeq(repos, 1, Len(repos) - 1)),
                            repos[Len(repos)])

\* repos.rs:48-89.  now is the reading of the clock.  A failing read or
\* write returns Err and leaves the file as it was.
AddRecentRepo(path, now) ==
    LET retained == SelectSeq(recent, LAMBDA r : r.path # path)
        repos == Append(retained, RecentRepo(path, now))
    IN /\ clock' = now
       /\ recent' = IF Len(repos) > MaxRecent
                    THEN SubSeq(SortByLastOpened(repos), 1, MaxRecent)
                    ELSE repos
       /\ UNCHANGED <<remoteVars, imageVars, cherryVars>>

\* The paths of the stored entries.
StoredPaths == {recent[i].path : i \in 1..Len(recent)}

\* The calls of the model name path 1, the last stored path, or the path
\* after the greatest stored one; the clock stands still or advances.
NextStore ==
    LET again == IF recent = <<>> THEN {}
                 ELSE {recent[Len(recent)].path, SetMax(StoredPaths) + 1}
    IN \E path \in ({1} \cup again) \cap RepoPaths, now \in {clock, clock + 1} :
          /\ now <= MaxClock
          /\ AddRecentRepo(path, now)
          /\ UNCHANGED <<diffVars, handlerVars, repoVars>>

SpecStore == InitMerge /\ [][NextStore]_vars

\* ---------------------------------------------------------------------------
\* Claims about add_recent_repo
\* ---------------------------------------------------------------------------

\* The entries add_recent_repo(path) at clock reading now chooses among:
\* the stored entries of the other paths, and the new entry.
RecentCandidates(path, now) ==
    {recent[i] : i \in {j \in 1..Len(recent) : recent[j].path # path}}
        \cup {RecentRepo(path, now)}

\* C16: starting from a missing or empty store, after any sequence of
\* add_recent_repo calls the stored list holds at most 20 entries and at
\* most one entry per path; a call drops entries only when the limit is
\* exceeded, and then no dropped entry has a later last_opened than an entry
\* that is kept.
C16_RecentRepos ==
    /\ [](/\ Len(recent) <= MaxRecent
          /\ \A i, j \in 1..Len(recent) : recent[i].path = recent[j].path => i = j)
    /\ [][\A path \in RepoPaths, now \in 0..MaxClock :
             AddRecentRepo(path, now) =>
                 LET candidates == RecentCandidates(path, now)
                     kept == {recent'[i] : i \in 1..Len(recent')}
                     dropped == candidates \ kept
                 IN /\ kept \subseteq candidates
                    /\ Len(recent') = Min(Cardinality(candidates), MaxRecent)
                    /\ \A d \in dropped, k \in kept : d.last_opened <= k.last_opened
         ]_vars

\* The twenty-first path was added after the clock had advanced: the list
\* is full, path 21 is its newest entry and path 1 has been dropped.
C16_Witness ==
    /\ Len(recent) = MaxRecent
    /\ recent[1] = RecentRepo(MaxRecent + 1, 1)
    /\ 1 \notin StoredPaths
    /\ \A i \in 2..Len(recent) : recent[i].last_opened = 0

\* ---------------------------------------------------------------------------
\* commands/cherrypick.rs
\* ---------------------------------------------------------------------------

\* The most commit objects the cherry-pick scenarios make.
MaxCherryCommits == 3

HasConflicts_Never == FALSE

\* cherrypick.rs:31, 101: index.has_conflicts()
HasConflicts == conflicted # {}

\* cherrypick.rs:126-127: the content of MERGE_MSG, or the default message.
ContinueMessage == IF merge_msg = None THEN <<"Cherry-pick", "commit">> ELSE merge_msg[1]

\* cherrypick.rs:13-90.  repo.cherrypick merges the change the commit makes
\* to its first parent (to the empty tree, for a root commit) into HEAD,
\* and writes CHERRY_PICK_HEAD and MERGE_MSG; it refuses a merge commit.
\* Without conflicts the handler commits, and leaves the two files.
CherryPick(c) ==
    LET parents == commits[c].parents
        A == IF parents = <<>> THEN EmptyTree ELSE commits[parents[1]].tree
        e == ThreeWayEffect(A, commits[c].tree)
        picked == /\ wt' = e.wt
                  /\ index' = e.index
                  /\ conflicted' = e.conflicted
                  /\ cherry_pick_head' = c
                  /\ merge_msg' = Some(commits[c].message)
                  /\ only_commits' = FALSE
    IN /\ IF HeadUnborn \/ Len(parents) > 1 \/ ~e.ok
          THEN /\ result' = Err("cherry_pick", <<"cherrypick", "failed">>)
               /\ UNCHANGED <<wt, index, conflicted, commits, refs, only_commits, cherryVars>>
          ELSE /\ picked
               /\ IF e.conflicted # {}
                  THEN /\ result' = OkMsg("cherry_pick", <<"conflicts">>)
                       /\ UNCHANGED <<commits, refs>>
                  ELSE IF ~sig_configured
                  THEN /\ result' = Err("cherry_pick", <<"signature", "failed">>)
                       /\ UNCHANGED <<commits, refs>>
                  ELSE /\ commits' = Append(commits,
                                            NewCommit(<<HeadCommit>>, e.index,
                                                      <<"Cherry-pick:">> \o commits[c].message))
                       /\ refs' = [refs EXCEPT ![head] = Len(commits) + 1]
                       /\ result' = OkMsg("cherry_pick", <<"success">>)
       /\ UNCHANGED <<head, stashes, merge_head, created, saved, stash_removed,
                      remoteVars, imageVars, storeVars>>

\* cherrypick.rs:92-144
CherryPickContinue ==
    /\ IF HasConflicts
       THEN /\ result' = Err("cherry_pick_continue", <<"unresolved", "conflicts">>)
            /\ UNCHANGED <<commits, refs, only_commits, cherryVars>>
       ELSE IF ~sig_configured
       THEN /\ result' = Err("cherry_pick_continue", <<"signature", "failed">>)
            /\ UNCHANGED <<commits, refs, only_commits, cherryVars>>
       ELSE IF HeadUnborn
       THEN /\ result' = Err("cherry_pick_continue", <<"HEAD", "failed">>)
            /\ UNCHANGED <<commits, refs, only_commits, cherryVars>>
       ELSE /\ commits' = Append(commits, NewCommit(<<HeadCommit>>, index, ContinueMessage))
            /\ refs' = [refs EXCEPT ![head] = Len(commits) + 1]
            /\ cherry_pick_head' = NoCommit
            /\ merge_msg' = None
            /\ only_commits' = FALSE
            /\ result' = Ok("cherry_pick_continue", 0)
    /\ UNCHANGED <<wt, index, conflicted, head, stashes, merge_head, created, saved,
                   stash_removed, remoteVars, imageVars, storeVars>>

\* The paths git tracks: those of HEAD's tree and of the index.
Tracked == {p \in Paths : HeadTree[p] # Absent \/ index[p] # Absent \/ p \in conflicted}

\* cherrypick.rs:146-167.  repo.reset(.., Hard, ..) sets the index and the
\* tracked files to the commit's tree, leaves the untracked files, and
\* removes the state files of a merge or cherry-pick in progress.
CherryPickAbort ==
    /\ IF HeadUnborn
       THEN /\ result' = Err("cherry_pick_abort", <<"HEAD", "failed">>)
            /\ UNCHANGED <<wt, index, conflicted, merge_head, only_commits, cherryVars>>
       ELSE /\ index' = HeadTree
            /\ wt' = [p \in Paths |-> IF p \in Tracked THEN HeadTree[p] ELSE wt[p]]
            /\ conflicted' = {}
            /\ merge_head' = NoCommit
            /\ cherry_pick_head' = NoCommit
            /\ merge_msg' = None
            /\ only_commits' = FALSE
            /\ result' = Ok("cherry_pick_abort", 0)
    /\ UNCHANGED <<commits, refs, head, stashes, created, saved, stash_removed,
                   remoteVars, imageVars, storeVars>>

NextCherry ==
    \/ \E p \in Paths, c \in 1..NumContents :
          WriteFile(p, c) /\ UNCHANGED <<extVars, diffVars, handlerVars, merge_head>>
    \/ \E p \in Paths : StageFile(p) /\ UNCHANGED <<extVars, diffVars, handlerVars, merge_head>>
    \/ /\ Len(commits) < MaxCherryCommits
       /\ CreateCommit(<<"a">>)
       /\ UNCHANGED <<extVars, diffVars, handlerVars, merge_head>>
    \/ \E c \in 1..Len(commits) :
          /\ CherryPick(c)
          /\ Len(commits') <= MaxCherryCommits
          /\ UNCHANGED <<diffVars, handlerVars>>
    \/ /\ CherryPickContinue
       /\ Len(commits') <= MaxCherryCommits
       /\ UNCHANGED <<diffVars, handlerVars>>
    \/ CherryPickAbort /\ UNCHANGED <<diffVars, handlerVars>>

SpecCherry == InitMerge /\ [][NextCherry]_vars

\* ---------------------------------------------------------------------------
\* Claims about cherry_pick_continue and cherry_pick_abort
\* ---------------------------------------------------------------------------

\* C19: cherry_pick_continue returns Err and creates no commit while the
\* index has unresolved conflicts; when it succeeds it has created exactly
\* one commit, on HEAD, whose only parent is the previous HEAD commit, and
\* CHERRY_PICK_HEAD and MERGE_MSG are gone; when cherry_pick_abort succeeds
\* the index and every tracked file are as in HEAD's tree, which has not
\* moved, and the two files are gone.
C19_CherryPickContinueAbort ==
    [][/\ (CherryPickContinue /\ conflicted # {}) =>
             /\ ~result'.ok
             /\ commits' = commits
             /\ refs' = refs
       /\ (CherryPickContinue /\ result'.ok) =>
             /\ Len(commits') = Len(commits) + 1
             /\ SubSeq(commits', 1, Len(commits)) = commits
             /\ commits'[Len(commits')].parents = <<HeadCommit>>
             /\ head' = head
             /\ refs' = [refs EXCEPT ![head] = Len(commits')]
             /\ cherry_pick_head' = NoCommit
             /\ merge_msg' = None
       /\ (CherryPickAbort /\ result'.ok) =>
             /\ commits' = commits /\ refs' = refs /\ head' = head
             /\ index' = HeadTree
             /\ conflicted' = {}
             /\ \A p \in Tracked : wt'[p] = HeadTree[p]
             /\ cherry_pick_head' = NoCommit
             /\ merge_msg' = None
      ]_vars

\* The root commit was picked onto the second commit and conflicted; after
\* the conflict was resolved cherry_pick_continue made the third commit with
\* the message of MERGE_MSG.
C19_Witness ==
    /\ result.op = "cherry_pick_continue"
    /\ result.ok
    /\ Len(commits) = 3
    /\ commits[1].tree["f"] = 1
    /\ commits[2].tree["f"] = 2
    /\ commits[2].message = <<"a">>
    /\ commits[3].parents = <<2>>
    /\ commits[3].message = commits[1].message
    /\ refs[head] = 3
    /\ conflicted = {}
    /\ cherry_pick_head = NoCommit
    /\ merge_msg = None

\* ---------------------------------------------------------------------------
\* commands/rebase.rs: rebase_continue and get_rebase_status
\* ---------------------------------------------------------------------------

\* rebase.rs:80-104.  open_rebase fails without a rebase on disk; then the
\* signature, the commit of the current operation, next and commit for
\* each remaining operation, and finish: the first failure returns Err and
\* leaves the rebase on disk, stopped at operation k.
RebaseContinue ==
    /\ h_pc = "idle"
    /\ \E ok \in BOOLEAN, k \in 0..MaxRebaseOps :
        /\ rb_current <= k /\ k <= rb_total
        /\ IF ~rb_active \/ ~sig_configured
           THEN /\ h_result' = Result("rebase_continue", "Err", FALSE)
                /\ UNCHANGED <<rb_active, rb_current>>
           ELSE IF ok /\ k = rb_total
           THEN \* every operation committed, rebase.finish succeeded
                /\ rb_active' = FALSE
                /\ rb_current' = rb_total
                /\ h_result' = Result("rebase_continue", "Ok", TRUE)
           ELSE /\ rb_current' = k
                /\ h_result' = Result("rebase_continue", "Err", FALSE)
                /\ UNCHANGED rb_active
    /\ UNCHANGED <<h_pc, sig_configured, rb_total, conflicts, walk_times, limit, hist_idx,
                   commits_out, sync_phase>>

get_rebase_status_AlwaysFields ==
    [in_progress |-> rb_active,
     current_operation |-> Some(IF rb_current = 0 THEN 0 ELSE rb_current - 1),
     total_operations |-> Some(rb_total)]

\* rebase.rs:123-145.  operation_current() is None until the first
\* operation has been started, then the index of the one in progress.
get_rebase_status ==
    IF rb_active
    THEN [in_progress |-> TRUE,
          current_operation |-> Some(IF rb_current = 0 THEN 0 ELSE rb_current - 1),
          total_operations |-> Some(rb_total)]
    ELSE [in_progress |-> FALSE, current_operation |-> None, total_operations |-> None]

NextRebase ==
    \/ StartRebase /\ UNCHANGED <<extVars, diffVars, repoVars>>
    \/ RebaseLoop /\ UNCHANGED <<extVars, diffVars, repoVars>>
    \/ RebaseEnd /\ UNCHANGED <<extVars, diffVars, repoVars>>
    \/ RebaseContinue /\ UNCHANGED <<extVars, diffVars, repoVars>>
    \/ RebaseAbort /\ UNCHANGED <<extVars, diffVars, repoVars>>
    \/ Configure /\ UNCHANGED <<extVars, diffVars, repoVars>>

SpecRebase == InitHandlers /\ [][NextRebase]_vars

\* ---------------------------------------------------------------------------
\* Claims about the rebase handlers
\* ---------------------------------------------------------------------------

StartRebaseReturns(success) ==
    /\ RebaseEnd
    /\ h_result' = Result("start_rebase", "Ok", success)

InProgressReport ==
    /\ get_rebase_status.in_progress
    /\ get_rebase_status.current_operation # None
    /\ get_rebase_status.total_operations # None

NotInProgressReport ==
    get_rebase_status =
        [in_progress |-> FALSE, current_operation |-> None, total_operations |-> None]

StatusFlags(p) ==
    IF p \in conflicted THEN {"conflicted"}
    ELSE (IF HeadTree[p] = Absent /\ index[p] # Absent THEN {"index_new"}
          ELSE IF HeadTree[p] # Absent /\ index[p] = Absent THEN {"index_deleted"}
          ELSE IF HeadTree[p] # index[p] THEN {"index_modified"}
          ELSE {})
         \cup
         (IF index[p] = Absent /\ wt[p] # Absent THEN {"wt_new"}
          ELSE IF index[p] # Absent /\ wt[p] = Absent THEN {"wt_deleted"}
          ELSE IF index[p] # wt[p] THEN {"wt_modified"}
          ELSE {})

\* git.rs:148
is_index_changed(status) ==
    "index_new" \in status \/ "index_modified" \in status \/ "index_deleted" \in status

\* A test that forgets the files the index does not know.
is_wt_changed_WithoutNew(status) ==
    "wt_modified" \in status \/ "wt_deleted" \in status

\* git.rs:149
is_wt_changed(status) ==
    "wt_new" \in status \/ "wt_modified" \in status \/ "wt_deleted" \in status

\* git.rs:153-161
staged_status(status) ==
    IF "index_new" \in status THEN "untracked"
    ELSE IF "index_modified" \in status THEN "modified"
    ELSE IF "index_deleted" \in status THEN "deleted"
    ELSE "staged"

\* git.rs:171-179
unstaged_status(status) ==
    IF "wt_new" \in status THEN "untracked"
    ELSE IF "wt_modified" \in status THEN "modified"
    ELSE IF "wt_deleted" \in status THEN "deleted"
    ELSE "unknown"

\* git.rs:144-188: the body of the loop: what the entry of p pushes.
FileStatusEntries(p) ==
    LET status == StatusFlags(p)
    IN (IF is_index_changed(status)
        THEN <<[path |-> p, status |-> staged_status(status), staged |-> TRUE]>>
        ELSE <<>>)
       \o
       (IF is_wt_changed(status)
        THEN <<[path |-> p, status |-> unstaged_status(status), staged |-> FALSE]>>
        ELSE <<>>)

RECURSIVE StatusFiles(_)
\* git.rs:142-190: files, after the loop over the entries of the paths S.
StatusFiles(S) ==
    IF S = {} THEN <<>>
    ELSE LET p == CHOOSE q \in S : TRUE
         IN FileStatusEntries(p) \o StatusFiles(S \ {p})

\* git.rs:135-191: the list get_repository_status returns.
RepositoryStatusList == StatusFiles(Paths)

\* ---------------------------------------------------------------------------
\* Claims about get_repository_status
\* ---------------------------------------------------------------------------

StatusLabels == {"untracked", "modified", "deleted"}

\* The entries of the returned list that name p, in the list's order.
EntriesOf(p) == SelectSeq(RepositoryStatusList, LAMBDA e : e.path = p)

\* The index holds another content of p than HEAD's tree.
IndexChanges(p) == index[p] # HeadTree[p]

\* The working directory holds another content of p than the index.
WorkTreeChanges(p) == wt[p] # index[p]

\* Every entry carries one of the three labels.
OnlyStatusLabels ==
    \A i \in 1..Len(RepositoryStatusList) : RepositoryStatusList[i].status \in StatusLabels

\* The entries of p are those of its kinds of change: the staged one first.
EntriesMatchChanges(p) ==
    /\ (IndexChanges(p) /\ WorkTreeChanges(p)) =>
          /\ Len(EntriesOf(p)) = 2
          /\ EntriesOf(p)[1].staged
          /\ ~EntriesOf(p)[2].staged
    /\ (IndexChanges(p) /\ ~WorkTreeChanges(p)) =>
          /\ Len(EntriesOf(p)) = 1
          /\ EntriesOf(p)[1].staged
    /\ (~IndexChanges(p) /\ WorkTreeChanges(p)) =>
          /\ Len(EntriesOf(p)) = 1
          /\ ~EntriesOf(p)[1].staged

====
